---- MODULE Spec2Model ----
(***************************************************************************)
(* cell-script: a spreadsheet-style expression language.  A program is a   *)
(* list of params and cells; it is evaluated by a tree-walking AST         *)
(* interpreter (ast_interpreter.rs), by a stack VM over a stack IR (vm.rs),*)
(* and by an accumulator interpreter (ir_interpreter.rs) over the          *)
(* accumulator IR that ir.rs generates.                                    *)
(*                                                                         *)
(* Numbers.  The program computes on f64.  The model computes on exact     *)
(* rationals <<n, d>> (d > 0, lowest terms) extended with the IEEE specials*)
(* +inf = <<1, 0>>, -inf = <<-1, 0>> and NaN = <<0, 0>>.  Every engine     *)
(* applies the same f64 operation where the model applies the same exact   *)
(* operation, so equal model values stand for equal f64 values whenever the*)
(* two engines apply the same operator tree to the same operands.  Rounding*)
(* and the sign of zero are not modelled.                                  *)
(***************************************************************************)
EXTENDS Integers, Sequences, FiniteSets, TLC

(***************************************************************************)
(* f64 values and arithmetic                                               *)
(***************************************************************************)
Abs(n) == IF n < 0 THEN -n ELSE n

Sign(n) == IF n < 0 THEN -1 ELSE IF n > 0 THEN 1 ELSE 0

RECURSIVE Gcd(_, _)
Gcd(a, b) == IF b = 0 THEN a ELSE Gcd(b, a % b)

\* the canonical form of the fraction n/d (d = 0: a special value)
Norm(n, d) ==
    IF d = 0 THEN <<Sign(n), 0>>
    ELSE LET s == IF d < 0 THEN -1 ELSE 1
             g == Gcd(Abs(n), Abs(d))
         IN  <<(s * n) \div g, (s * d) \div g>>

Num(n) == <<n, 1>>
NaN == <<0, 0>>
PosInf == <<1, 0>>
NegInf == <<-1, 0>>

IsNaN(x) == x = NaN
IsInf(x) == x[2] = 0 /\ x[1] # 0
IsFinite(x) == x[2] # 0

\* l + r
FAdd(l, r) ==
    IF IsNaN(l) \/ IsNaN(r) THEN NaN
    ELSE IF IsInf(l) /\ IsInf(r) THEN (IF l = r THEN l ELSE NaN)
    ELSE IF IsInf(l) THEN l
    ELSE IF IsInf(r) THEN r
    ELSE Norm(l[1] * r[2] + r[1] * l[2], l[2] * r[2])

FNeg(x) == <<-x[1], x[2]>>

\* l - r
FSub(l, r) == FAdd(l, FNeg(r))

\* l * r
FMul(l, r) == Norm(l[1] * r[1], l[2] * r[2])

\* 1 / x  (1 / 0 is +inf: the sign of zero is not modelled)
FRecip(x) ==
    IF IsNaN(x) THEN NaN
    ELSE IF x[1] = 0 THEN PosInf
    ELSE IF x[1] < 0 THEN <<-x[2], -x[1]>>
    ELSE <<x[2], x[1]>>

\* l / r
FDiv(l, r) == FMul(l, FRecip(r))

\* the integer part of a finite x, rounded towards zero
FTrunc(x) == Num(Sign(x[1]) * (Abs(x[1]) \div x[2]))

\* l % r: Rust's f64 remainder (fmod), the sign of the dividend
FRem(l, r) ==
    IF IsNaN(l) \/ IsNaN(r) \/ IsInf(l) \/ r = Num(0) THEN NaN
    ELSE IF IsInf(r) THEN l
    ELSE FSub(l, FMul(r, FTrunc(FDiv(l, r))))

\* the sign of l - r for two comparable (non-NaN) values
Cmp(l, r) ==
    IF l[2] = 0 /\ r[2] = 0 THEN Sign(l[1] - r[1])
    ELSE Sign(l[1] * r[2] - r[1] * l[2])

FEq(l, r) == ~IsNaN(l) /\ ~IsNaN(r) /\ Cmp(l, r) = 0
FGt(l, r) == ~IsNaN(l) /\ ~IsNaN(r) /\ Cmp(l, r) > 0
FGe(l, r) == ~IsNaN(l) /\ ~IsNaN(r) /\ Cmp(l, r) >= 0
FLt(l, r) == ~IsNaN(l) /\ ~IsNaN(r) /\ Cmp(l, r) < 0
FLe(l, r) == ~IsNaN(l) /\ ~IsNaN(r) /\ Cmp(l, r) <= 0

\* f64::floor
FFloor(x) ==
    IF ~IsFinite(x) THEN x
    ELSE Num(x[1] \div x[2])

\* f64::round: to the nearest integer, halves away from zero
FRound(x) ==
    IF ~IsFinite(x) THEN x
    ELSE Num(Sign(x[1]) * ((2 * Abs(x[1]) + x[2]) \div (2 * x[2])))

(***************************************************************************)
(* Names.  Names are strings; sorted_by_key orders them by their bytes.    *)
(* NameOrder lists the names the model uses in that order.                 *)
(***************************************************************************)
NameOrder ==
    <<"F", "V", "a", "b", "c", "f", "m", "p", "p1", "p2", "q",
      "studentnumber", "t", "test", "test1", "test2", "u">>

Contains(s, x) == \E i \in 1..Len(s) : s[i] = x

Range(s) == {s[i] : i \in 1..Len(s)}

\* the names of S in byte order
SortedNames(S) == SelectSeq(NameOrder, LAMBDA n : n \in S)

(***************************************************************************)
(* The AST (parser.rs): a program is a list of nodes                       *)
(***************************************************************************)
Param(name) == [kind |-> "Param", name |-> name]
Cell(name, expr) == [kind |-> "Cell", name |-> name, expr |-> expr]

Number(x) == [kind |-> "Number", v |-> x]
Ident(name) == [kind |-> "Ident", name |-> name]
Call(name, arguments) == [kind |-> "Call", name |-> name, arguments |-> arguments]
Bin(kind, l, r) == [kind |-> kind, l |-> l, r |-> r]
Condition(lhs, op, rhs, true_branch, false_branch) ==
    [kind |-> "Condition", lhs |-> lhs, rhs |-> rhs, op |-> op,
     true_branch |-> true_branch, false_branch |-> false_branch]

BinKinds == {"Add", "Sub", "Mul", "Div", "Mod"}
Operators == {"Equals", "Greater", "GreaterEqual", "Less", "LessEqual"}

DeclaredNames(ast) == {ast[i].name : i \in 1..Len(ast)}
ParamNames(ast) == {ast[i].name : i \in {j \in 1..Len(ast) : ast[j].kind = "Param"}}
CellNames(ast) == {ast[i].name : i \in {j \in 1..Len(ast) : ast[j].kind = "Cell"}}

\* AST::find_node: the first node of that name
FindNode(ast, name) ==
    ast[CHOOSE i \in 1..Len(ast) :
            /\ ast[i].name = name
            /\ \A j \in 1..(i - 1) : ast[j].name # name]

\* s followed by the elements of t that are not yet in it
RECURSIVE AppendNew(_, _)
AppendNew(s, t) ==
    IF t = <<>> THEN s
    ELSE AppendNew(IF Contains(s, Head(t)) THEN s ELSE Append(s, Head(t)), Tail(t))

\* Expr::name_uses: the cell and param names an expression reads, each once,
\* in the order of their first use (the names of called functions are not uses)
RECURSIVE NameUses(_)
RECURSIVE NameUsesOfArgs(_)
NameUses(expr) ==
    CASE expr.kind = "Number" -> <<>>
      [] expr.kind = "Ident" -> <<expr.name>>
      [] expr.kind = "Call" -> NameUsesOfArgs(expr.arguments)
      [] expr.kind \in BinKinds -> AppendNew(NameUses(expr.l), NameUses(expr.r))
      [] expr.kind = "Condition" ->
            AppendNew(AppendNew(AppendNew(NameUses(expr.lhs), NameUses(expr.rhs)),
                                NameUses(expr.true_branch)),
                      NameUses(expr.false_branch))

NameUsesOfArgs(args) ==
    IF args = <<>> THEN <<>>
    ELSE AppendNew(NameUses(Head(args)), NameUsesOfArgs(Tail(args)))

(***************************************************************************)
(* Dependency order (ir.rs, get_order_of_execution).  A result is          *)
(* [st, v]: st = "ok" with the value v, "panic" for a Rust panic (the      *)
(* process aborts) and "overflow" for a recursion that never returns (the  *)
(* thread's stack overflows and the process aborts).                       *)
(***************************************************************************)
Ok(v) == [st |-> "ok", v |-> v]
Panic == [st |-> "panic", v |-> <<>>]
Overflow == [st |-> "overflow", v |-> <<>>]

\* dep_map: node -> dependencies; a later node of the same name replaces an
\* earlier one (HashMap::insert)
DepMap(ast) ==
    [n \in DeclaredNames(ast) |->
        LET last == CHOOSE i \in 1..Len(ast) :
                        /\ ast[i].name = n
                        /\ \A j \in (i + 1)..Len(ast) : ast[j].name # n
        IN  IF ast[last].kind = "Param" THEN <<>> ELSE NameUses(ast[last].expr)]

\* the node put in front of the results of its dependencies
PushNameFirst(result, name) == <<name>> \o result

\* lines 280-282: the node follows the results of its dependencies
PushName(result, name) == Append(result, name)

\* update_order_in_subset.  anc holds the names whose calls are on the Rust
\* stack: the function reads only graph, node and order, and order does not
\* change during the recursion, so a call for a name of anc repeats that
\* call's recursion for ever.
RECURSIVE UpdateOrderInSubset(_, _, _, _)
RECURSIVE UpdateOrderOfDeps(_, _, _, _, _)
UpdateOrderInSubset(graph, name, order, anc) ==
    IF Contains(order, name) THEN Ok(<<>>)
    ELSE LET deps == SelectSeq(graph[name], LAMBDA x : ~Contains(order, x))
         IN  IF \E i \in 1..Len(deps) : deps[i] \notin DOMAIN graph
                THEN Panic   \* graph.get(x).unwrap() on None
             ELSE IF name \in anc THEN Overflow
             ELSE LET r == UpdateOrderOfDeps(graph, deps, order, anc \cup {name}, <<>>)
                  IN  IF r.st # "ok" THEN r ELSE Ok(PushName(r.v, name))

\* the loop `for node in deps { result.extend(update_order_in_subset(..)) }`
UpdateOrderOfDeps(graph, deps, order, anc, result) ==
    IF deps = <<>> THEN Ok(result)
    ELSE LET r == UpdateOrderInSubset(graph, Head(deps), order, anc)
         IN  IF r.st # "ok" THEN r
             ELSE UpdateOrderOfDeps(graph, Tail(deps), order, anc, result \o r.v)

\* the loop over dep_map sorted by name
RECURSIVE OrderLoop(_, _, _)
OrderLoop(graph, names, order) ==
    IF names = <<>> THEN Ok(order)
    ELSE LET r == UpdateOrderInSubset(graph, Head(names), order, {})
         IN  IF r.st # "ok" THEN r
             ELSE OrderLoop(graph, Tail(names), order \o r.v)

GetOrderOfExecution(ast) ==
    LET dep_map == DepMap(ast)
    IN  OrderLoop(dep_map, SortedNames(DOMAIN dep_map), <<>>)

(***************************************************************************)
(* Example programs                                                        *)
(***************************************************************************)
N(n) == Number(Num(n))

\* examples/example_1.cell as test_get_order_of_execution gives it:
\* param p1; param p2;
\* cell test: p1 + p2 * p2 + a * p1 / (p2 + 1); cell a: 5 + c; cell c: p1 + 1;
\* (parse_expr groups every operator chain to the right)
Example1 ==
    <<Param("p1"), Param("p2"),
      Cell("test",
           Bin("Add", Ident("p1"),
               Bin("Mul", Ident("p2"),
                   Bin("Add", Ident("p2"),
                       Bin("Mul", Ident("a"),
                           Bin("Div", Ident("p1"),
                               Bin("Add", Ident("p2"), N(1)))))))),
      Cell("a", Bin("Add", N(5), Ident("c"))),
      Cell("c", Bin("Add", Ident("p1"), N(1)))>>

\* examples/example_2.cell as test_get_order_of_execution gives it
Example2 ==
    <<Param("studentnumber"),
      Cell("f", Condition(Bin("Mod", Ident("studentnumber"), N(2)), "Equals", N(0),
                          Bin("Div", Ident("studentnumber"), N(2)),
                          Bin("Div", Ident("studentnumber"), N(3)))),
      Cell("F", Bin("Add", Bin("Mul", Call("rand", <<>>), N(22)), N(3))),
      Cell("t", Call("int", <<Bin("Mul", Call("rand", <<>>), N(10))>>)),
      Cell("m", Bin("Add", Bin("Mul", Call("rand", <<>>), Number(<<9, 2>>)),
                    Number(<<1, 2>>))),
      Cell("V", Bin("Sub", Bin("Div", Ident("f"), Ident("t")),
                    Bin("Div", Ident("f"),
                        Bin("Mul", Bin("Mul", N(2), Ident("m")), Ident("t")))))>>

(***************************************************************************)
(* The AST interpreter (ast_interpreter.rs)                                *)
(***************************************************************************)
VARIABLES
    program,    \* the AST that parse returned
    bindings,   \* the parameter bindings (Params): name -> value
    query,      \* cell_names, the names asked of ast_interpreter::run
    engine,     \* which evaluator runs: "ast", "vm" or "ir"
    rands,      \* the values the random source returns, in order (repeating)
    pc,         \* "start", "ast", "run" or "done"
    exec_order, \* what get_order_of_execution returned to code_gen
    cg,         \* the result of ir::code_gen: st and the accumulator IR
    sir,        \* the stack IR that vm::run is given
    astResult,  \* what ast_interpreter::run returned
    vm,         \* vm::run: status, ip, stack, ri
    vmResult,   \* the list vm::run returned
    acc,        \* ir_interpreter::run: status, ip, regs, ri
    accResult,  \* the list ir_interpreter::run returned
    source,     \* the text of the code file, a sequence of characters
    scanned,    \* what scan returned
    parsed,     \* what parse returned
    exit,       \* the exit status of the process, -1 while it runs
    jit,        \* jit_compile: the translation of the stack IR
    native      \* the function jit_compile built, running

vars == <<program, bindings, query, engine, rands, pc, exec_order, cg, sir, astResult,
          vm, vmResult, acc, accResult, source, scanned, parsed, exit, jit, native>>

\* the front end of cli::run and the process's exit status
front == <<source, scanned, parsed, exit>>
\* the JIT
back == <<jit, native>>

Pending(expr) == [state |-> "Pending", expr |-> expr]
Done(v) == [state |-> "Done", v |-> v]

\* Vec::pop: nothing happens on an empty vector
PopName(call_stack) ==
    IF call_stack = <<>> THEN <<>> ELSE SubSeq(call_stack, 1, Len(call_stack) - 1)

\* the next value of the random source after n draws
Random(n) == rands[(n % Len(rands)) + 1]

\* Operator::compare and the match of run_expr's Condition arm
Compare(op, left, right) ==
    CASE op = "Equals" -> FEq(left, right)
      [] op = "Greater" -> FGt(left, right)
      [] op = "GreaterEqual" -> FGe(left, right)
      [] op = "Less" -> FLt(left, right)
      [] op = "LessEqual" -> FLe(left, right)

\* the arithmetic of run_expr's binary arms
Arith(kind, l, r) ==
    CASE kind = "Add" -> FAdd(l, r)
      [] kind = "Sub" -> FSub(l, r)
      [] kind = "Mul" -> FMul(l, r)
      [] kind = "Div" -> FDiv(l, r)
      [] kind = "Mod" -> FRem(l, r)

\* A result of run_expr: st is "ok" (v is the value), "err" (msg names the
\* anyhow error) or "overflow" (the recursion never returns); call_stack and
\* ri (the number of random draws) are the context it leaves.
ExprOk(v, call_stack, ri) ==
    [st |-> "ok", msg |-> "", v |-> v, call_stack |-> call_stack, ri |-> ri]
ExprErr(msg, call_stack, ri) ==
    [st |-> "err", msg |-> msg, v |-> NaN, call_stack |-> call_stack, ri |-> ri]
ExprOverflow(call_stack, ri) ==
    [st |-> "overflow", msg |-> "", v |-> NaN, call_stack |-> call_stack, ri |-> ri]

\* line 128: context.call_stack.try_borrow_mut()?.pop() at the end of every
\* run_expr that did not return early
Leave(r) == IF r.st = "ok" THEN [r EXCEPT !.call_stack = PopName(r.call_stack)] ELSE r

\* lines 62-74: the cycle check of an identifier
OnCallStack(call_stack, cell_name) == Contains(call_stack, cell_name)

\* run_expr.  anc holds the (cell, call stack, random position) triples at
\* which the Pending cells on the Rust stack were entered: run_expr is a
\* function of these, so entering a cell again at one of them repeats the
\* recursion for ever.
RECURSIVE RunExpr(_, _, _, _, _)
RunExpr(expr, cell_results, call_stack, ri, anc) ==
    CASE expr.kind = "Number" -> Leave(ExprOk(expr.v, call_stack, ri))
      [] expr.kind = "Ident" ->
            IF OnCallStack(call_stack, expr.name)
                THEN ExprErr("cyclic dependency found", call_stack, ri)
            ELSE IF expr.name \notin DOMAIN cell_results
                THEN ExprErr("is not defined", call_stack, ri)
            ELSE LET cell == cell_results[expr.name]
                     at == <<expr.name, call_stack, ri % Len(rands)>>
                 IN  IF cell.state = "Done" THEN Leave(ExprOk(cell.v, call_stack, ri))
                     ELSE IF at \in anc THEN ExprOverflow(call_stack, ri)
                     ELSE Leave(RunExpr(cell.expr, cell_results,
                                        Append(call_stack, expr.name), ri,
                                        anc \cup {at}))
      [] expr.kind = "Call" ->
            IF expr.name = "rand" THEN Leave(ExprOk(Random(ri), call_stack, ri + 1))
            ELSE IF expr.name = "int" THEN
                IF Len(expr.arguments) # 1
                    THEN ExprErr("int() expects 1 arg", call_stack, ri)
                ELSE LET arg == RunExpr(expr.arguments[1], cell_results, call_stack, ri, anc)
                     IN  IF arg.st # "ok" THEN arg
                         ELSE Leave([arg EXCEPT !.v = FRound(arg.v)])
            ELSE ExprErr("undefined function", call_stack, ri)
      [] expr.kind \in BinKinds ->
            LET l == RunExpr(expr.l, cell_results, call_stack, ri, anc)
            IN  IF l.st # "ok" THEN l
                ELSE LET r == RunExpr(expr.r, cell_results, l.call_stack, l.ri, anc)
                     IN  IF r.st # "ok" THEN r
                         ELSE Leave([r EXCEPT !.v = Arith(expr.kind, l.v, r.v)])
      [] expr.kind = "Condition" ->
            LET lhs == RunExpr(expr.lhs, cell_results, call_stack, ri, anc)
            IN  IF lhs.st # "ok" THEN lhs
                ELSE LET rhs == RunExpr(expr.rhs, cell_results, lhs.call_stack, lhs.ri, anc)
                     IN  IF rhs.st # "ok" THEN rhs
                         ELSE Leave(RunExpr(IF Compare(expr.op, lhs.v, rhs.v)
                                                THEN expr.true_branch
                                                ELSE expr.false_branch,
                                            cell_results, rhs.call_stack, rhs.ri, anc))

\* lines 138-154 of run: cells are Pending, params are Done with their value
CellResults(code, params) ==
    [n \in DeclaredNames(code) |->
        LET last == CHOOSE i \in 1..Len(code) :
                        /\ code[i].name = n
                        /\ \A j \in (i + 1)..Len(code) : code[j].name # n
        IN  IF code[last].kind = "Cell" THEN Pending(code[last].expr)
            ELSE Done(params[n])]

\* A result of run: st, msg, the (name, value) list and the context left
RunResult(st, msg, results, call_stack, ri) ==
    [st |-> st, msg |-> msg, results |-> results, call_stack |-> call_stack, ri |-> ri]

\* lines 157-169 of run: the loop over the queried names
RECURSIVE RunQueries(_, _, _, _, _)
RunQueries(cell_names, cell_results, call_stack, ri, results) ==
    IF cell_names = <<>> THEN RunResult("ok", "", results, call_stack, ri)
    ELSE LET cell_name == Head(cell_names)
         IN  IF cell_name \notin DOMAIN cell_results
                THEN RunResult("err", "is not defined", <<>>, call_stack, ri)
             ELSE LET cell == cell_results[cell_name]
                      pushed == Append(call_stack, cell_name)
                      r == IF cell.state = "Done" THEN ExprOk(cell.v, pushed, ri)
                           ELSE RunExpr(cell.expr, cell_results, pushed, ri,
                                        {<<cell_name, call_stack, ri % Len(rands)>>})
                  IN  IF r.st # "ok"
                        THEN RunResult(r.st, r.msg, <<>>, r.call_stack, r.ri)
                      ELSE RunQueries(Tail(cell_names), cell_results, r.call_stack, r.ri,
                                      Append(results, <<cell_name, r.v>>))

\* ast_interpreter::run
AstRunOf(code, cell_names, params) ==
    IF \E i \in 1..Len(code) : code[i].kind = "Param" /\ code[i].name \notin DOMAIN params
        THEN RunResult("err", "param not found", <<>>, <<>>, 0)
    ELSE RunQueries(cell_names, CellResults(code, params), <<>>, 0, <<>>)

(***************************************************************************)
(* The stack IR that vm.rs runs: instructions and the metadata             *)
(* meta.cell_addrs, the ordered list of (name, stack offset).  The source  *)
(* of its lowering is not in ir.rs (which holds the accumulator IR): the   *)
(* lowering below follows the specification, section 4.4, over the order   *)
(* that get_order_of_execution returns.                                    *)
(***************************************************************************)
Inst(op, arg) == [op |-> op, arg |-> arg]

CompareInst(op) ==
    CASE op = "Equals" -> "Equal"
      [] op = "Greater" -> "Greater"
      [] op = "GreaterEqual" -> "GreaterEqual"
      [] op = "Less" -> "Less"
      [] op = "LessEqual" -> "LessEqual"

LowerOk(v) == [st |-> "ok", v |-> v]
LowerErr(msg) == [st |-> "err", msg |-> msg, v |-> <<>>]

HasSlot(meta, name) == \E i \in 1..Len(meta) : meta[i][1] = name
SlotOf(meta, name) == meta[CHOOSE i \in 1..Len(meta) : meta[i][1] = name][2]

\* an insertion into the ordered map: a name it holds keeps its place
MetaInsert(meta, name, slot) ==
    IF HasSlot(meta, name)
        THEN [i \in 1..Len(meta) |-> IF meta[i][1] = name THEN <<name, slot>> ELSE meta[i]]
    ELSE Append(meta, <<name, slot>>)

\* Expression lowering; base is the index of the first instruction emitted.
RECURSIVE LowerExpr(_, _, _)
RECURSIVE LowerArgs(_, _, _)
LowerExpr(expr, meta, base) ==
    CASE expr.kind = "Number" -> LowerOk(<<Inst("LoadConst", expr.v)>>)
      [] expr.kind = "Ident" ->
            IF HasSlot(meta, expr.name)
                THEN LowerOk(<<Inst("Read", SlotOf(meta, expr.name))>>)
            ELSE LowerErr("unknown name")
      [] expr.kind = "Call" ->
            IF \/ expr.name = "rand" /\ Len(expr.arguments) # 0
               \/ expr.name = "int" /\ Len(expr.arguments) # 1
                THEN LowerErr("arity")
            ELSE LET args == LowerArgs(expr.arguments, meta, base)
                 IN  IF args.st # "ok" THEN args
                     ELSE LowerOk(Append(args.v, Inst("Call", expr.name)))
      [] expr.kind \in BinKinds ->
            LET r == LowerExpr(expr.r, meta, base)
            IN  IF r.st # "ok" THEN r
                ELSE LET l == LowerExpr(expr.l, meta, base + Len(r.v))
                     IN  IF l.st # "ok" THEN l
                         ELSE LowerOk(r.v \o l.v \o <<Inst(expr.kind, 0)>>)
      [] expr.kind = "Condition" ->
            LET rhs == LowerExpr(expr.rhs, meta, base)
            IN  IF rhs.st # "ok" THEN rhs
                ELSE
            LET lhs == LowerExpr(expr.lhs, meta, base + Len(rhs.v))
            IN  IF lhs.st # "ok" THEN lhs
                ELSE
            LET jif == base + Len(rhs.v) + Len(lhs.v) + 1   \* index of JMPIfFalse
                t == LowerExpr(expr.true_branch, meta, jif + 1)
            IN  IF t.st # "ok" THEN t
                ELSE
            LET jmp == jif + 1 + Len(t.v)                   \* index of JMP
                f == LowerExpr(expr.false_branch, meta, jmp + 1)
            IN  IF f.st # "ok" THEN f
                ELSE LowerOk(rhs.v \o lhs.v
                             \o <<Inst(CompareInst(expr.op), 0), Inst("JMPIfFalse", jmp + 1)>>
                             \o t.v \o <<Inst("JMP", jmp + 1 + Len(f.v))>>
                             \o f.v \o <<Inst("Nop", 0)>>)

LowerArgs(args, meta, base) ==
    IF args = <<>> THEN LowerOk(<<>>)
    ELSE LET a == LowerExpr(Head(args), meta, base)
         IN  IF a.st # "ok" THEN a
             ELSE LET rest == LowerArgs(Tail(args), meta, base + Len(a.v))
                  IN  IF rest.st # "ok" THEN rest ELSE LowerOk(a.v \o rest.v)

EmptyIR == [instructions |-> <<>>, meta |-> <<>>]

\* the nodes in dependency order: the k-th node's value stays at offset k - 1
RECURSIVE LowerNodes(_, _, _, _)
LowerNodes(ast, order, k, ir) ==
    IF k > Len(order) THEN LowerOk(ir)
    ELSE LET node == FindNode(ast, order[k])
             code == IF node.kind = "Param"
                        THEN LowerOk(<<Inst("LoadParam", node.name)>>)
                     ELSE LowerExpr(node.expr, ir.meta, Len(ir.instructions))
         IN  IF code.st # "ok" THEN code
             ELSE LowerNodes(ast, order, k + 1,
                             [instructions |-> ir.instructions \o code.v,
                              meta |-> MetaInsert(ir.meta, node.name, k - 1)])

\* AST -> stack IR; the result is get_order_of_execution's when that aborts
LowerStack(ast) ==
    LET order == GetOrderOfExecution(ast)
    IN  IF order.st # "ok" THEN [st |-> order.st, v |-> EmptyIR]
        ELSE LET r == LowerNodes(ast, order.v, 1, EmptyIR)
             IN  IF r.st # "ok" THEN [st |-> "err", v |-> EmptyIR] ELSE r

(***************************************************************************)
(* The stack VM (vm.rs)                                                    *)
(***************************************************************************)
\* Stack::<64>
StackSize == 64

\* Stack::default: data is 1-based here, data[i + 1] is the Rust data[i]
StackDefault == [data |-> [i \in 1..StackSize |-> Num(0)], st |-> 0]

\* Stack::push: data[st] = data panics (index out of bounds) on a full stack
StackPush(stack, data) ==
    IF stack.st >= StackSize THEN [st |-> "panic", stack |-> stack]
    ELSE [st |-> "ok",
          stack |-> [data |-> [stack.data EXCEPT ![stack.st + 1] = data],
                     st |-> stack.st + 1]]

\* Stack::pop: st -= 1 on an empty stack panics (overflow check) or wraps and
\* then data[st] panics (index out of bounds)
StackPop(stack) ==
    IF stack.st = 0 THEN [st |-> "panic", stack |-> stack, v |-> NaN]
    ELSE [st |-> "ok", stack |-> [stack EXCEPT !.st = stack.st - 1],
          v |-> stack.data[stack.st]]

\* Stack::peak: data[spo] panics outside the array
StackPeak(stack, spo) ==
    IF spo >= StackSize THEN [st |-> "panic", v |-> NaN]
    ELSE [st |-> "ok", v |-> stack.data[spo + 1]]

Bool(b) == IF b THEN Num(1) ELSE Num(0)

\* The value a two-operand instruction pushes; first is the value popped
\* first (the most recently pushed), second the one popped after it.
VmGreater(first, second) == Bool(FGt(first, second))
VmGreaterEqual(first, second) == Bool(FGe(first, second))
\* lines 69-73: `let rhs = stack.pop(); let lhs = stack.pop();`
VmLess(first, second) == Bool(FLt(second, first))
VmLessEqual(first, second) == Bool(FLe(first, second))
VmEqual(first, second) == Bool(FEq(first, second))
VmNotEqual(first, second) == Bool(~FEq(first, second))
\* the difference of the operands taken the other way round
VmSubSwapped(first, second) == FSub(second, first)

\* lines 100-104: Sub
VmSub(first, second) == FSub(first, second)
\* the quotient of the operands taken the other way round
VmDivSwapped(first, second) == FDiv(second, first)

\* lines 115-119: Div
VmDiv(first, second) == FDiv(first, second)
VmMod(first, second) == FRem(first, second)

VmBinary(op, first, second) ==
    CASE op = "Greater" -> VmGreater(first, second)
      [] op = "GreaterEqual" -> VmGreaterEqual(first, second)
      [] op = "Less" -> VmLess(first, second)
      [] op = "LessEqual" -> VmLessEqual(first, second)
      [] op = "Equal" -> VmEqual(first, second)
      [] op = "NotEqual" -> VmNotEqual(first, second)
      [] op = "Add" -> FAdd(first, second)
      [] op = "Sub" -> VmSub(first, second)
      [] op = "Mul" -> FMul(first, second)
      [] op = "Mod" -> VmMod(first, second)
      [] op = "Div" -> VmDiv(first, second)

VmBinaryOps ==
    {"Greater", "GreaterEqual", "Less", "LessEqual", "Equal", "NotEqual",
     "Add", "Sub", "Mul", "Mod", "Div"}

\* The machine after one instruction: status is "running", "err" (run
\* returns Err) or "panic".
Machine(status, ip, stack, ri) == [status |-> status, ip |-> ip, stack |-> stack, ri |-> ri]

\* the end of an arm that pushes: `ip += 1` after the match
PushNext(ip, stack, data, ri) ==
    LET p == StackPush(stack, data)
    IN  IF p.st = "panic" THEN Machine("panic", ip, stack, ri)
        ELSE Machine("running", ip + 1, p.stack, ri)

\* a missing param read as 0.0
VmLoadParamOrZero(ip, stack, params, name, ri) ==
    PushNext(ip, stack, IF name \in DOMAIN params THEN params[name] ELSE Num(0), ri)

\* lines 121-126: params.get(x).ok_or("param not found")?
VmLoadParam(ip, stack, params, name, ri) ==
    IF name \notin DOMAIN params THEN Machine("err", ip, stack, ri)
    ELSE PushNext(ip, stack, params[name], ri)

\* lines 127-134: Call(name)
VmCall(ip, stack, name, ri) ==
    CASE name = "int" ->
            LET v == StackPop(stack)
            IN  IF v.st = "panic" THEN Machine("panic", ip, stack, ri)
                ELSE PushNext(ip, v.stack, FFloor(v.v), ri)
      [] name = "rand" -> PushNext(ip, stack, Random(ri), ri + 1)
      [] OTHER -> Machine("running", ip + 1, stack, ri)

\* one turn of the while loop of run for the instruction inst
VmExec(inst, ip, stack, params, ri) ==
    CASE inst.op = "JMPIfFalse" ->
            LET v == StackPop(stack)
            IN  IF v.st = "panic" THEN Machine("panic", ip, stack, ri)
                ELSE IF v.v = Num(0) THEN Machine("running", inst.arg, v.stack, ri)
                ELSE Machine("running", ip + 1, v.stack, ri)
      [] inst.op \in VmBinaryOps ->
            LET first == StackPop(stack)
            IN  IF first.st = "panic" THEN Machine("panic", ip, stack, ri)
                ELSE LET second == StackPop(first.stack)
                     IN  IF second.st = "panic" THEN Machine("panic", ip, first.stack, ri)
                         ELSE PushNext(ip, second.stack,
                                       VmBinary(inst.op, first.v, second.v), ri)
      [] inst.op = "LoadConst" -> PushNext(ip, stack, inst.arg, ri)
      [] inst.op = "JMP" -> Machine("running", inst.arg, stack, ri)
      [] inst.op = "Read" ->
            LET v == StackPeak(stack, inst.arg)
            IN  IF v.st = "panic" THEN Machine("panic", ip, stack, ri)
                ELSE PushNext(ip, stack, v.v, ri)
      [] inst.op = "Nop" -> Machine("running", ip + 1, stack, ri)
      [] inst.op = "LoadParam" -> VmLoadParam(ip, stack, params, inst.arg, ri)
      [] inst.op = "Call" -> VmCall(ip, stack, inst.arg, ri)

\* lines 140-143: the result map, one entry per name of the metadata (a later
\* entry of the same name replaces an earlier one); "panic" when a peak does
VmResultMap(meta, stack) ==
    IF \E i \in 1..Len(meta) : meta[i][2] >= StackSize THEN [st |-> "panic", v |-> <<>>]
    ELSE [st |-> "ok",
          v |-> [n \in {meta[i][1] : i \in 1..Len(meta)} |->
                    LET last == CHOOSE i \in 1..Len(meta) :
                                    /\ meta[i][1] = n
                                    /\ \A j \in (i + 1)..Len(meta) : meta[j][1] # n
                    IN  stack.data[meta[last][2] + 1]]]

\* the lists of the names of S in any order, each once
RECURSIVE Orderings(_)
Orderings(S) ==
    IF S = {} THEN {<<>>}
    ELSE UNION {{<<x>> \o o : o \in Orderings(S \ {x})} : x \in S}

\* line 145 (and ir_interpreter.rs line 106): result.into_iter().collect().
\* A HashMap iterates in an order that its hasher's random keys decide.
HashMapOrders(map) == Orderings(DOMAIN map)

\* the result list without its last pair
CollectButLast(map, order) == [i \in 1..(Len(order) - 1) |-> <<order[i], map[order[i]]>>]

\* the result list for one iteration order
Collect(map, order) == [i \in 1..Len(order) |-> <<order[i], map[order[i]]>>]

(***************************************************************************)
(* The accumulator IR and its code generator (ir.rs)                       *)
(***************************************************************************)
Accumulator == [slot |-> "Accumulator", arg |-> 0]
Var(i) == [slot |-> "Var", arg |-> i]
CellResult(name) == [slot |-> "CellResult", arg |-> name]
Const(x) == [slot |-> "Const", arg |-> x]

Mov(from, to) == [op |-> "Mov", from |-> from, to |-> to]
AccOp(op, slot) == [op |-> op, arg |-> slot]
JMPCompare(op, arg, addr) == [op |-> "JMPCompare", cmp |-> op, arg |-> arg, addr |-> addr]
JMP(addr) == [op |-> "JMP", addr |-> addr]
Nop == [op |-> "Nop"]
CallInst(fn_name, arg_start) == [op |-> "Call", fn_name |-> fn_name, arg_start |-> arg_start]
LoadParam(param, to) == [op |-> "LoadParam", param |-> param, to |-> to]

\* the state of code_gen_expr: *sp and the instructions pushed so far
Gen(sp, code) == [sp |-> sp, code |-> code]

\* a conditional jump aimed at the JMP itself
TrueBranchStartAtJmp(false_branch_jmp_addr) == false_branch_jmp_addr

\* line 231: `let true_branch_start_addr = ir.instructions.len()`, taken just
\* after the placeholder of the JMP was pushed at false_branch_jmp_addr
TrueBranchStartAddr(false_branch_jmp_addr) == false_branch_jmp_addr + 1

\* code_gen_expr with *sp = sp and ir.instructions.len() = base on entry: the
\* instructions it pushes, and *sp on return
RECURSIVE CodeGenExpr(_, _, _)
RECURSIVE CodeGenArgs(_, _, _, _)
CodeGenExpr(expr, sp, base) ==
    CASE expr.kind = "Number" -> Gen(sp, <<Mov(Const(expr.v), Accumulator)>>)
      [] expr.kind = "Ident" -> Gen(sp, <<Mov(CellResult(expr.name), Accumulator)>>)
      [] expr.kind = "Call" ->
            LET args == CodeGenArgs(expr.arguments, 0, sp, base)
            IN  Gen(args.sp, Append(args.code, CallInst(expr.name, sp)))
      [] expr.kind \in {"Add", "Mul"} ->
            LET l == CodeGenExpr(expr.l, sp, base)
                target == l.sp
                r == CodeGenExpr(expr.r, l.sp + 1, base + Len(l.code) + 1)
            IN  Gen(r.sp, l.code \o <<Mov(Accumulator, Var(target))>> \o r.code
                          \o <<AccOp(expr.kind, Var(target))>>)
      [] expr.kind \in {"Mod", "Sub", "Div"} ->
            LET r == CodeGenExpr(expr.r, sp, base)
                target == r.sp
                l == CodeGenExpr(expr.l, r.sp + 1, base + Len(r.code) + 1)
            IN  Gen(l.sp, r.code \o <<Mov(Accumulator, Var(target))>> \o l.code
                          \o <<AccOp(expr.kind, Var(target))>>)
      [] expr.kind = "Condition" ->
            LET rhs == CodeGenExpr(expr.rhs, sp, base)
                rhs_val == rhs.sp
                lhs == CodeGenExpr(expr.lhs, rhs.sp + 1, base + Len(rhs.code) + 1)
                \* the Nop that becomes the JMPCompare
                jmp_cmp_addr == base + Len(rhs.code) + 1 + Len(lhs.code)
                f == CodeGenExpr(expr.false_branch, lhs.sp, jmp_cmp_addr + 1)
                \* the Nop that becomes the JMP
                false_branch_jmp_addr == jmp_cmp_addr + 1 + Len(f.code)
                true_branch_start_addr == TrueBranchStartAddr(false_branch_jmp_addr)
                t == CodeGenExpr(expr.true_branch, f.sp, true_branch_start_addr)
                last_nop_instr_addr == true_branch_start_addr + Len(t.code)
            IN  Gen(t.sp,
                    rhs.code \o <<Mov(Accumulator, Var(rhs_val))>> \o lhs.code
                    \o <<JMPCompare(expr.op, Var(rhs_val), true_branch_start_addr)>>
                    \o f.code \o <<JMP(last_nop_instr_addr)>> \o t.code \o <<Nop>>)

\* lines 122-129: argument i goes to Var(*sp + i), and *sp grows by one
CodeGenArgs(arguments, i, sp, base) ==
    IF i >= Len(arguments) THEN Gen(sp, <<>>)
    ELSE LET a == CodeGenExpr(arguments[i + 1], sp, base)
             rest == CodeGenArgs(arguments, i + 1, a.sp + 1, base + Len(a.code) + 1)
         IN  Gen(rest.sp, a.code \o <<Mov(Accumulator, Var(a.sp + i))>> \o rest.code)

\* the loop of code_gen over the order of execution, from its k-th name on
RECURSIVE CodeGenNodes(_, _, _, _)
CodeGenNodes(ast, order, k, base) ==
    IF k > Len(order) THEN <<>>
    ELSE LET node == FindNode(ast, order[k])
             code == IF node.kind = "Param"
                        THEN <<LoadParam(node.name, CellResult(node.name))>>
                     ELSE Append(CodeGenExpr(node.expr, 0, base).code,
                                 Mov(Accumulator, CellResult(node.name)))
         IN  code \o CodeGenNodes(ast, order, k + 1, base + Len(code))

\* code_gen: Ok(ir), or the abort of get_order_of_execution
CodeGen(ast) ==
    LET order_of_execution == GetOrderOfExecution(ast)
    IN  IF order_of_execution.st # "ok" THEN [st |-> order_of_execution.st, v |-> <<>>]
        ELSE Ok(CodeGenNodes(ast, order_of_execution.v, 1, 0))

(***************************************************************************)
(* The accumulator interpreter (ir_interpreter.rs)                         *)
(***************************************************************************)
\* let mut stack = [0f64; 10]
AccStackSize == 10

\* the registers of run: a, stack (1-based here) and the result map
AccRegs(a, stack, result) == [a |-> a, stack |-> stack, result |-> result]

AccDefault == AccRegs(Num(0), [i \in 1..AccStackSize |-> Num(0)], <<>>)

MapHas(map, name) == \E i \in 1..Len(map) : map[i][1] = name
MapGet(map, name) == map[CHOOSE i \in 1..Len(map) : map[i][1] = name][2]
MapSet(map, name, v) ==
    IF MapHas(map, name)
        THEN [i \in 1..Len(map) |-> IF map[i][1] = name THEN <<name, v>> ELSE map[i]]
    ELSE Append(map, <<name, v>>)

\* read!: stack[*a] panics outside the array
AccRead(slot, regs) ==
    CASE slot.slot = "Accumulator" -> [st |-> "ok", v |-> regs.a]
      [] slot.slot = "Var" ->
            IF slot.arg >= AccStackSize THEN [st |-> "panic", v |-> NaN]
            ELSE [st |-> "ok", v |-> regs.stack[slot.arg + 1]]
      [] slot.slot = "CellResult" ->
            [st |-> "ok",
             v |-> IF MapHas(regs.result, slot.arg) THEN MapGet(regs.result, slot.arg)
                   ELSE Num(0)]
      [] slot.slot = "Const" -> [st |-> "ok", v |-> slot.arg]

\* `*get_slot!(to) = v`
AccWrite(slot, v, regs) ==
    CASE slot.slot = "Accumulator" -> [st |-> "ok", regs |-> [regs EXCEPT !.a = v]]
      [] slot.slot = "Var" ->
            IF slot.arg >= AccStackSize THEN [st |-> "panic", regs |-> regs]
            ELSE [st |-> "ok", regs |-> [regs EXCEPT !.stack[slot.arg + 1] = v]]
      [] slot.slot = "CellResult" ->
            [st |-> "ok", regs |-> [regs EXCEPT !.result = MapSet(regs.result, slot.arg, v)]]
      [] slot.slot = "Const" -> [st |-> "err", regs |-> regs]

AccMachine(status, ip, regs, ri) == [status |-> status, ip |-> ip, regs |-> regs, ri |-> ri]

\* a conditional jump whose fall-through goes back to the first instruction
AccJumpRestart(holds, ip, addr) == IF holds THEN addr + 1 ELSE 0

\* lines 62-66: `if op.compare(a, read!(arg)) { ip = *addr; }`, then the
\* `ip += 1` that ends every turn of the loop
AccJump(holds, ip, addr) == IF holds THEN addr + 1 ELSE ip + 1

\* one turn of the while loop of run
AccExec(inst, ip, regs, params, ri) ==
    CASE inst.op = "JMPCompare" ->
            LET x == AccRead(inst.arg, regs)
            IN  IF x.st # "ok" THEN AccMachine(x.st, ip, regs, ri)
                ELSE AccMachine("running",
                                AccJump(Compare(inst.cmp, regs.a, x.v), ip, inst.addr),
                                regs, ri)
      [] inst.op = "JMP" -> AccMachine("running", inst.addr + 1, regs, ri)
      [] inst.op \in BinKinds ->
            LET x == AccRead(inst.arg, regs)
            IN  IF x.st # "ok" THEN AccMachine(x.st, ip, regs, ri)
                ELSE AccMachine("running", ip + 1,
                                [regs EXCEPT !.a = Arith(inst.op, regs.a, x.v)], ri)
      [] inst.op = "Nop" -> AccMachine("running", ip + 1, regs, ri)
      [] inst.op = "Mov" ->
            LET from == AccRead(inst.from, regs)
            IN  IF from.st # "ok" THEN AccMachine(from.st, ip, regs, ri)
                ELSE LET to == AccWrite(inst.to, from.v, regs)
                     IN  IF to.st # "ok" THEN AccMachine(to.st, ip, regs, ri)
                         ELSE AccMachine("running", ip + 1, to.regs, ri)
      [] inst.op = "LoadParam" ->
            IF inst.param \notin DOMAIN params THEN AccMachine("err", ip, regs, ri)
            ELSE LET to == AccWrite(inst.to, params[inst.param], regs)
                 IN  IF to.st # "ok" THEN AccMachine(to.st, ip, regs, ri)
                     ELSE AccMachine("running", ip + 1, to.regs, ri)
      [] inst.op = "Call" ->
            IF inst.fn_name = "rand"
                THEN AccMachine("running", ip + 1, [regs EXCEPT !.a = Random(ri)], ri + 1)
            ELSE IF inst.fn_name = "int"
                THEN LET arg0 == AccRead(Var(inst.arg_start), regs)
                     IN  IF arg0.st # "ok" THEN AccMachine(arg0.st, ip, regs, ri)
                         ELSE AccMachine("running", ip + 1,
                                         [regs EXCEPT !.a = FRound(arg0.v)], ri)
            ELSE AccMachine("err", ip, regs, ri)

\* the result map as a function of its names
AccResultMap(result) == [n \in {result[i][1] : i \in 1..Len(result)} |-> MapGet(result, n)]

(***************************************************************************)
(* The scanner (scanner.rs).  A source text is a sequence of characters,   *)
(* each a string.  An ASCII character is the string of that character; a   *)
(* character outside ASCII is written as its code point, and the three of  *)
(* the model take two bytes each in the UTF-8 of a &str.                   *)
(***************************************************************************)
\* e with acute accent (alphabetic), ARABIC-INDIC DIGIT THREE (numeric) and
\* NO-BREAK SPACE (white space)
EAcute == "U+00E9"
ArabicThree == "U+0663"
NoBreakSpace == "U+00A0"
TwoByteChars == {EAcute, ArabicThree, NoBreakSpace}
DigitChars == <<"0", "1", "2", "3", "4", "5", "6", "7", "8", "9">>
Digits == Range(DigitChars)
Letters ==
    {"a", "b", "c", "d", "e", "f", "g", "h", "i", "j", "k", "l", "m", "n", "o", "p", "q",
     "r", "s", "t", "u", "v", "w", "x", "y", "z"}
IsWhitespace(c) == c \in {" ", "\n", NoBreakSpace}
IsNumeric(c) == c \in Digits \cup {ArabicThree}
IsAsciiAlphabetic(c) == c \in Letters
IsAlphanumeric(c) == c \in Letters \cup Digits \cup {EAcute, ArabicThree}

\* the characters of a &str as one string
RECURSIVE Join(_)
Join(text) == IF text = <<>> THEN "" ELSE Head(text) \o Join(Tail(text))

\* Token: Ident and Number carry the slice of the input they were cut from
Tok(type) == [type |-> type, text |-> <<>>]
TokText(type, text) == [type |-> type, text |-> text]

ScanErr(msg) == [st |-> "err", msg |-> msg, v |-> <<>>]

\* str::parse::<f64>: an optional sign, digits with at most one `.` and at
\* least one digit (the exponent, inf and nan forms need a letter, which no
\* text of the model that reaches parse holds after a digit); the value is
\* exact
DigitValue(c) == (CHOOSE i \in 1..Len(DigitChars) : DigitChars[i] = c) - 1
RECURSIVE DigitsValue(_)
DigitsValue(text) ==
    IF text = <<>> THEN 0
    ELSE 10 * DigitsValue(SubSeq(text, 1, Len(text) - 1)) + DigitValue(text[Len(text)])
RECURSIVE Pow10(_)
Pow10(n) == IF n = 0 THEN 1 ELSE 10 * Pow10(n - 1)
ParseF64(text) ==
    LET signed == text # <<>> /\ Head(text) \in {"-", "+"}
        body == IF signed THEN Tail(text) ELSE text
        dots == {i \in 1..Len(body) : body[i] = "."}
        digits == SelectSeq(body, LAMBDA c : c \in Digits)
        fraction == IF dots = {} THEN 0 ELSE Len(body) - (CHOOSE i \in dots : TRUE)
        sign == IF signed /\ Head(text) = "-" THEN -1 ELSE 1
    IN  IF /\ \A i \in 1..Len(body) : body[i] \in Digits \cup {"."}
           /\ Cardinality(dots) <= 1
           /\ digits # <<>>
          THEN Ok(Norm(sign * DigitsValue(digits), Pow10(fraction)))
        ELSE ScanErr("invalid float literal")

\* char::len_utf8, and the byte at which the char of index k starts (for
\* k = Len(input), the length of the input in bytes)
Width(c) == IF c \in TwoByteChars THEN 2 ELSE 1
ByteStart(input, k) ==
    k + Cardinality({j \in 1..k : Width(input[j]) = 2})
IsCharBoundary(input, b) == \E k \in 0..Len(input) : ByteStart(input, k) = b

\* &input[from..=to], from and to being byte indices: panics when the range
\* leaves the input or an end of it is inside a character
Slice(input, from, to) ==
    IF to + 1 > ByteStart(input, Len(input)) \/ from > to + 1 THEN Panic
    ELSE IF ~IsCharBoundary(input, from) \/ ~IsCharBoundary(input, to + 1) THEN Panic
    ELSE LET first == CHOOSE k \in 0..Len(input) : ByteStart(input, k) = from
             last == CHOOSE k \in 0..Len(input) : ByteStart(input, k) = to + 1
         IN  Ok(SubSeq(input, first + 1, last))

\* scan_number's loop from the char at j: each char is pushed to `number`
\* and kept when it is '.' or when `number` then parses
RECURSIVE ScanNumberLoop(_, _, _, _)
ScanNumberLoop(input, j, offset, number) ==
    IF j >= Len(input) THEN [offset |-> offset, j |-> j]
    ELSE LET c == input[j + 1]
             pushed == Append(number, c)
         IN  IF c = "." \/ ParseF64(pushed).st = "ok"
               THEN ScanNumberLoop(input, j + 1, offset + 1, pushed)
             ELSE [offset |-> offset, j |-> j]

\* scan_number(input, start_char_idx, chars), chars standing at j: the token
\* and where chars stands afterwards
ScanNumber(input, start_char_idx, j) ==
    LET loop == ScanNumberLoop(input, j, 0, <<>>)
        number == IF ~IsCharBoundary(input, start_char_idx) THEN Panic
                  ELSE Slice(input, start_char_idx, start_char_idx + loop.offset)
    IN  [st |-> number.st, token |-> TokText("Number", number.v), j |-> loop.j]

RECURSIVE ScanIdentLoop(_, _, _)
ScanIdentLoop(input, j, offset) ==
    IF j < Len(input) /\ IsAlphanumeric(input[j + 1])
      THEN ScanIdentLoop(input, j + 1, offset + 1)
    ELSE [offset |-> offset, j |-> j]

Keyword(ident) ==
    CASE Join(ident) = "param" -> Tok("Param")
      [] Join(ident) = "cell" -> Tok("Cell")
      [] Join(ident) = "if" -> Tok("If")
      [] OTHER -> TokText("Ident", ident)

ScanIdent(input, start_char_idx, j) ==
    LET loop == ScanIdentLoop(input, j, 0)
        ident == Slice(input, start_char_idx, start_char_idx + loop.offset)
    IN  [st |-> ident.st,
         token |-> IF ident.st = "ok" THEN Keyword(ident.v) ELSE Tok("Ident"),
         j |-> loop.j]

\* the comment arm: chars are consumed up to and with the next '\n'
RECURSIVE SkipComment(_, _)
SkipComment(input, j) ==
    IF j >= Len(input) THEN j
    ELSE IF input[j + 1] = "\n" THEN j + 1 ELSE SkipComment(input, j + 1)

\* the skip arm taken turn after turn: the chars from j on are passed over
\* as long as they are white space
RECURSIVE SkipWhitespace(_, _)
SkipWhitespace(input, j) ==
    IF j < Len(input) /\ IsWhitespace(input[j + 1]) THEN SkipWhitespace(input, j + 1)
    ELSE j

\* the token of a character that is a token by itself
SingleChar(c) ==
    CASE c = "," -> "Comma" [] c = "?" -> "QMark" [] c = ";" -> "SemiColon"
      [] c = ":" -> "Colon" [] c = "+" -> "Add" [] c = "*" -> "Mul"
      [] c = ">" -> "Greater" [] c = "<" -> "Less" [] c = "/" -> "Div"
      [] c = "(" -> "ParOpen" [] c = ")" -> "ParClose" [] OTHER -> "none"
\* the token of c followed by '='
WithEqual(c) ==
    CASE c = ">" -> "GreaterEqual" [] c = "<" -> "LessEqual" [] c = "=" -> "Equal"
      [] OTHER -> "none"

\* the arm of scan's match that the char c takes, peek being the next char
ScanArm(c, peek) ==
    IF c = "#" THEN "comment"
    ELSE IF WithEqual(c) # "none" /\ peek = "=" THEN "equal"
    ELSE IF c = "-" THEN (IF IsNumeric(peek) THEN "number" ELSE "sub")
    ELSE IF SingleChar(c) # "none" THEN "single"
    ELSE IF IsWhitespace(c) THEN "skip"
    ELSE IF IsNumeric(c) THEN "number"
    ELSE IF IsAsciiAlphabetic(c) THEN "ident"
    ELSE "unexpected"

\* scan's loop from the char at i: the tokens of the rest of the input
RECURSIVE ScanFrom(_, _)
ScanPush(token, input, j) ==
    LET rest == ScanFrom(input, j)
    IN  IF rest.st = "ok" THEN Ok(<<token>> \o rest.v) ELSE rest
ScanPushed(cut, input) ==
    IF cut.st # "ok" THEN [st |-> cut.st, msg |-> "", v |-> <<>>]
    ELSE ScanPush(cut.token, input, cut.j)
ScanFrom(input, i) ==
    IF i >= Len(input) THEN Ok(<<>>)
    ELSE LET c == input[i + 1]
             peek == IF i + 1 < Len(input) THEN input[i + 2] ELSE "none"
             arm == ScanArm(c, peek)
         IN  CASE arm = "comment" -> ScanFrom(input, SkipComment(input, i + 1))
               [] arm = "equal" -> ScanPush(Tok(WithEqual(c)), input, i + 2)
               [] arm = "sub" -> ScanPush(Tok("Sub"), input, i + 1)
               [] arm = "single" -> ScanPush(Tok(SingleChar(c)), input, i + 1)
               [] arm = "skip" -> ScanFrom(input, SkipWhitespace(input, i + 1))
               [] arm = "number" -> ScanPushed(ScanNumber(input, i, i + 1), input)
               [] arm = "ident" -> ScanPushed(ScanIdent(input, i, i + 1), input)
               [] arm = "unexpected" -> ScanErr("unexpected character")

\* scan(input)
Scan(input) == ScanFrom(input, 0)

(***************************************************************************)
(* The parser (parser.rs).  The Peekable token iterator is the token list  *)
(* and pos, the number of tokens taken from it; a result carries the pos   *)
(* the iterator is left at, also when it is an error.                      *)
(***************************************************************************)
NoToken == Tok("None")
Peek(tokens, pos) == IF pos < Len(tokens) THEN tokens[pos + 1] ELSE NoToken
Advance(tokens, pos) == IF pos < Len(tokens) THEN pos + 1 ELSE pos

ParseOk(v, pos) == [st |-> "ok", msg |-> "", v |-> v, pos |-> pos]
ParseErr(msg, pos) == [st |-> "err", msg |-> msg, v |-> <<>>, pos |-> pos]

IsOperator(token) == token.type \in {"Mul", "Add", "Sub", "Div", "Mod"}

\* the comparison token of parse_cond
OperatorOf(token) ==
    CASE token.type = "Greater" -> "Greater"
      [] token.type = "GreaterEqual" -> "GreaterEqual"
      [] token.type = "Less" -> "Less"
      [] token.type = "LessEqual" -> "LessEqual"
      [] token.type = "Equal" -> "Equals"
      [] OTHER -> "none"

MakeBinFlipped(next, lhs_expr, rhs_expr) ==
    CASE next.type = "Mul" -> Bin("Mul", rhs_expr, lhs_expr)
      [] next.type = "Add" -> Bin("Add", rhs_expr, lhs_expr)
      [] next.type = "Sub" -> Bin("Sub", rhs_expr, lhs_expr)
      [] next.type = "Div" -> Bin("Div", rhs_expr, lhs_expr)
      [] next.type = "Mod" -> Bin("Mod", rhs_expr, lhs_expr)
\* parse_expr's `match next`: the node of a binary operator
MakeBin(next, lhs_expr, rhs_expr) ==
    CASE next.type = "Mul" -> Bin("Mul", lhs_expr, rhs_expr)
      [] next.type = "Add" -> Bin("Add", lhs_expr, rhs_expr)
      [] next.type = "Sub" -> Bin("Sub", lhs_expr, rhs_expr)
      [] next.type = "Div" -> Bin("Div", lhs_expr, rhs_expr)
      [] next.type = "Mod" -> Bin("Mod", lhs_expr, rhs_expr)

RECURSIVE ParseExpr(_, _), ParseAtom(_, _), ParseCond(_, _), ParseArgs(_, _)

\* parse_atom's `while let Ok(expr) = parse_expr(tokens)`: the arguments
\* pushed when the loop ends.  A parse_expr that fails ends the loop and
\* leaves the iterator where it failed.
ParseArgs(tokens, pos) ==
    LET expr == ParseExpr(tokens, pos)
        next_token == Peek(tokens, expr.pos)
    IN  IF expr.st # "ok" THEN ParseOk(<<>>, expr.pos)
        ELSE IF next_token.type = "ParClose" THEN ParseOk(<<expr.v>>, expr.pos + 1)
        ELSE IF next_token.type = "Comma"
          THEN LET rest == ParseArgs(tokens, expr.pos + 1)
               IN  IF rest.st = "ok" THEN ParseOk(<<expr.v>> \o rest.v, rest.pos) ELSE rest
        ELSE ParseErr("invalid token", expr.pos)

ParseAtom(tokens, pos) ==
    LET token == Peek(tokens, pos)
        next_token == Peek(tokens, pos + 1)
    IN  IF token = NoToken THEN ParseErr("[8] expected a token", pos)
        ELSE IF token.type = "Ident" /\ next_token.type = "ParOpen"
          THEN LET args == ParseArgs(tokens, pos + 2)
               IN  IF args.st = "ok" THEN ParseOk(Call(Join(token.text), args.v), args.pos)
                   ELSE args
        ELSE IF token.type = "Ident" THEN ParseOk(Ident(Join(token.text)), pos + 1)
        ELSE IF token.type = "Number"
          THEN LET number == ParseF64(token.text)
               IN  IF number.st = "ok" THEN ParseOk(Number(number.v), pos + 1)
                   ELSE ParseErr("invalid float literal", pos + 1)
        ELSE ParseErr("[7] unexpected token", pos + 1)

ParseCond(tokens, pos) ==
    LET lhs == ParseExpr(tokens, Advance(tokens, pos))
        op == OperatorOf(Peek(tokens, lhs.pos))
        rhs == ParseExpr(tokens, Advance(tokens, lhs.pos))
        true_branch == ParseExpr(tokens, Advance(tokens, rhs.pos))
        false_branch == ParseExpr(tokens, Advance(tokens, true_branch.pos))
    IN  IF lhs.st # "ok" THEN lhs
        ELSE IF op = "none" THEN ParseErr("unexpected token", Advance(tokens, lhs.pos))
        ELSE IF rhs.st # "ok" THEN rhs
        ELSE IF Peek(tokens, rhs.pos).type # "QMark"
          THEN ParseErr("expected ? found", Advance(tokens, rhs.pos))
        ELSE IF true_branch.st # "ok" THEN true_branch
        ELSE IF Peek(tokens, true_branch.pos).type # "Colon"
          THEN ParseErr("expected : found", Advance(tokens, true_branch.pos))
        ELSE IF false_branch.st # "ok" THEN false_branch
        ELSE ParseOk(Condition(lhs.v, op, rhs.v, true_branch.v, false_branch.v),
                     false_branch.pos)

ParseExpr(tokens, pos) ==
    LET first == Peek(tokens, pos)
        inner == ParseExpr(tokens, pos + 1)
        lhs_expr ==
            IF first.type = "ParOpen"
              THEN IF inner.st # "ok" THEN inner
                   ELSE IF Peek(tokens, inner.pos).type = "ParClose"
                     THEN ParseOk(inner.v, inner.pos + 1)
                   ELSE ParseErr("[5] unexpected token", Advance(tokens, inner.pos))
            ELSE IF first.type = "If" THEN ParseCond(tokens, pos)
            ELSE ParseAtom(tokens, pos)
        next == Peek(tokens, lhs_expr.pos)
        rhs_expr == ParseExpr(tokens, lhs_expr.pos + 1)
    IN  IF first = NoToken THEN ParseErr("[6] expected a token", pos)
        ELSE IF lhs_expr.st # "ok" THEN lhs_expr
        ELSE IF IsOperator(next)
          THEN IF rhs_expr.st # "ok" THEN rhs_expr
               ELSE ParseOk(MakeBin(next, lhs_expr.v, rhs_expr.v), rhs_expr.pos)
        ELSE lhs_expr

\* parse_cell, after the `cell` token
ParseCell(tokens, pos) ==
    LET name == Peek(tokens, pos)
        expr == ParseExpr(tokens, pos + 2)
    IN  IF ~(name.type = "Ident" /\ Peek(tokens, pos + 1).type = "Colon")
          THEN ParseErr("[4] unexpected token", Advance(tokens, Advance(tokens, pos)))
        ELSE IF expr.st # "ok" THEN expr
        ELSE IF Peek(tokens, expr.pos).type = "SemiColon"
          THEN ParseOk(Cell(Join(name.text), expr.v), expr.pos + 1)
        ELSE ParseErr("[3] unexpected token", Advance(tokens, expr.pos))

\* parse_param, after the `param` token
ParseParam(tokens, pos) ==
    LET name == Peek(tokens, pos)
    IN  IF name.type = "Ident" /\ Peek(tokens, pos + 1).type = "SemiColon"
          THEN ParseOk(Param(Join(name.text)), pos + 2)
        ELSE ParseErr("[2] unexpected token", Advance(tokens, Advance(tokens, pos)))

\* parse's loop from pos: the nodes of the rest of the tokens
RECURSIVE ParseNodes(_, _)
ParseNodes(tokens, pos) ==
    LET token == Peek(tokens, pos)
        node == IF token.type = "Param" THEN ParseParam(tokens, pos + 1)
                ELSE ParseCell(tokens, pos + 1)
        rest == ParseNodes(tokens, node.pos)
    IN  IF token = NoToken THEN ParseOk(<<>>, pos)
        ELSE IF token.type \notin {"Param", "Cell"}
          THEN ParseErr("[1] unexpected token, expected 'param' or 'cell'", pos + 1)
        ELSE IF node.st # "ok" THEN node
        ELSE IF rest.st # "ok" THEN rest
        ELSE ParseOk(<<node.v>> \o rest.v, rest.pos)

\* parse(tokens)
Parse(tokens) == ParseNodes(tokens, 0)

(***************************************************************************)
(* The JIT (cranelift.rs).  jit_compile translates the stack IR, one       *)
(* instruction per turn of its loop, into a function over variables of the *)
(* code generator; it keeps an abstract stack of the variables that stand  *)
(* for the operand stack.  Variable::new(k) is the number k here.  The     *)
(* function is then defined and called on a fixed input array.             *)
(***************************************************************************)
\* The translation: i is the index the loop of lines 149-285 is at,
\* stack_vars the length of the vector stack_vars (it holds the variables
\* 0 .. stack_vars - 1 in order), current_stack the abstract stack and ops
\* what was emitted, one entry per instruction of the IR.
Jit(status, i, stack_vars, current_stack, ops) ==
    [status |-> status, i |-> i, stack_vars |-> stack_vars,
     current_stack |-> current_stack, ops |-> ops]
JitNone == Jit("none", 0, 0, <<>>, <<>>)

\* lines 129-147: the indices at which a block starts
JitBlocks(instructions) ==
    {0} \cup {instructions[k].arg : k \in {j \in 1..Len(instructions) :
                                            instructions[j].op \in {"JMP", "JMPIfFalse"}}}
    \cup {k : k \in {j \in 1..Len(instructions) : instructions[j].op = "JMPIfFalse"}}

\* stack!(push), lines 91-103: the variable that takes the value pushed, a
\* new one when stack_vars is not longer than current_stack
JitPush(stack_vars, current_stack) ==
    IF stack_vars <= Len(current_stack)
        THEN [var |-> stack_vars, stack_vars |-> stack_vars + 1,
              current_stack |-> Append(current_stack, stack_vars)]
    ELSE [var |-> Len(current_stack), stack_vars |-> stack_vars,
          current_stack |-> Append(current_stack, Len(current_stack))]

\* line 186: the byte offset of the load of the param at position `offset`
\* of param_order
JitLoadOffset(offset) == offset * 0

\* the position of name in param_order, from 0; -1 when it is not there
JitPosition(param_order, name) ==
    IF Contains(param_order, name)
        THEN (CHOOSE k \in 1..Len(param_order) :
                /\ param_order[k] = name
                /\ \A j \in 1..(k - 1) : param_order[j] # name) - 1
    ELSE -1

\* lines 155-284: the translation of the instruction at index idx
JitTurn(inst, idx, t, param_order) ==
    LET cs == t.current_stack
        n == Len(cs)
        emit(stack_vars, current_stack, op) ==
            Jit("running", idx + 1, stack_vars, current_stack, Append(t.ops, op))
        panic == [t EXCEPT !.status = "panic"]
    IN  CASE inst.op = "Call" -> panic                       \* todo!()
          [] inst.op = "JMPIfFalse" ->
                IF n = 0 THEN panic                          \* stack must not be empty
                ELSE emit(t.stack_vars, SubSeq(cs, 1, n - 1),
                          [op |-> "brif", a |-> cs[n], then |-> inst.arg, else |-> idx + 1])
          [] inst.op = "JMP" ->
                emit(t.stack_vars, cs, [op |-> "jump", then |-> inst.arg])
          [] inst.op = "Nop" -> emit(t.stack_vars, cs, [op |-> "none"])
          [] inst.op = "LoadConst" ->
                LET p == JitPush(t.stack_vars, cs)
                IN  emit(p.stack_vars, p.current_stack,
                         [op |-> "f64const", out |-> p.var, val |-> inst.arg])
          [] inst.op = "Read" ->
                IF inst.arg >= n THEN panic                  \* current_stack[offset]
                ELSE emit(t.stack_vars, Append(cs, cs[inst.arg + 1]), [op |-> "none"])
          [] inst.op = "LoadParam" ->
                LET p == JitPush(t.stack_vars, cs)
                    offset == JitPosition(param_order, inst.arg)
                IN  IF offset < 0 THEN panic                 \* position(..).unwrap()
                    ELSE emit(p.stack_vars, p.current_stack,
                              [op |-> "load", out |-> p.var, offset |-> JitLoadOffset(offset)])
          [] OTHER ->
                IF n < 2 THEN panic                          \* stack must not be empty
                ELSE LET p == JitPush(t.stack_vars, SubSeq(cs, 1, n - 2))
                     IN  emit(p.stack_vars, p.current_stack,
                              [op |-> inst.op, a |-> cs[n], b |-> cs[n - 1], out |-> p.var])

\* the translation of the first k instructions
RECURSIVE JitUpTo(_, _, _)
JitUpTo(instructions, k, param_order) ==
    IF k = 0 THEN Jit("running", 0, 0, <<>>, <<>>)
    ELSE LET t == JitUpTo(instructions, k - 1, param_order)
         IN  IF t.status # "running" THEN t
             ELSE JitTurn(instructions[k], k - 1, t, param_order)

\* What the code generator makes of the function: it holds a value that is
\* no f64 in an f64 variable when a comparison was translated (lines
\* 198-200, see the TODO of lines 192-193), branches on an f64 variable,
\* and has a block that does not end in a jump when an instruction that is
\* no jump comes just before a block start.  Whether def_var and
\* define_function take such a function or panic is the library's.
JitIllFormed(instructions) ==
    \/ \E k \in 1..Len(instructions) :
            instructions[k].op \in {"Greater", "GreaterEqual", "Less", "LessEqual",
                                    "Equal", "NotEqual", "JMPIfFalse"}
    \/ \E b \in JitBlocks(instructions) :
            \/ b >= Len(instructions)
            \/ b > 0 /\ instructions[b].op \notin {"JMP", "JMPIfFalse"}
    \/ \E k \in 1..(Len(instructions) - 1) :
            instructions[k].op \in {"JMP", "JMPIfFalse"} /\ k \notin JitBlocks(instructions)

\* the code generator's instruction for a two-operand instruction of the IR,
\* on the values of the variables a (popped first) and b
JitMod(a, b) == FSub(a, FMul(b, FFloor(FDiv(a, b))))
JitBinary(op, a, b) ==
    CASE op = "Greater" -> Bool(FGt(a, b))
      [] op = "GreaterEqual" -> Bool(FGe(a, b))
      [] op = "Less" -> Bool(FLt(a, b))
      [] op = "LessEqual" -> Bool(FLe(a, b))
      [] op = "Equal" -> Bool(FEq(a, b))
      [] op = "NotEqual" -> Bool(~FEq(a, b))
      [] op = "Add" -> FAdd(a, b)
      [] op = "Sub" -> FSub(a, b)
      [] op = "Mul" -> FMul(a, b)
      [] op = "Div" -> FDiv(a, b)
      [] op = "Mod" -> JitMod(a, b)

\* lines 368-369: the arrays jit_compile calls the function on
JitIn == <<Num(1), Num(2)>>
JitOutLen == 4

\* The function running: ip is the index of the IR instruction whose code
\* runs next, env the values of the variables (env[k + 1] is variable k's;
\* a variable that was never defined reads as zero), out the out array.
Native(status, ip, env, out) == [status |-> status, ip |-> ip, env |-> env, out |-> out]
NativeNone == Native("none", 0, <<>>, <<>>)

\* the code emitted for one instruction of the IR, run
NativeExec(op, ip, env, out) ==
    CASE op.op = "none" -> Native("running", ip + 1, env, out)
      [] op.op = "f64const" ->
            Native("running", ip + 1, [env EXCEPT ![op.out + 1] = op.val], out)
      [] op.op = "load" ->
            Native("running", ip + 1,
                   [env EXCEPT ![op.out + 1] = JitIn[(op.offset \div 8) + 1]], out)
      [] op.op = "jump" -> Native("running", op.then, env, out)
      [] op.op = "brif" ->
            Native("running", IF env[op.a + 1] # Num(0) THEN op.then ELSE op.else, env, out)
      [] OTHER ->
            Native("running", ip + 1,
                   [env EXCEPT ![op.out + 1] = JitBinary(op.op, env[op.a + 1], env[op.b + 1])],
                   out)

\* lines 312-322: the stores of the last block, variable k to out + 8 * k
NativeStores(env) ==
    [k \in 1..JitOutLen |-> IF k <= Len(env) THEN env[k] ELSE Num(0)]

\* param_order: the params in the order of their declaration
ParamOrder(ast) ==
    LET ps == SelectSeq(ast, LAMBDA node : node.kind = "Param")
    IN  [k \in 1..Len(ps) |-> ps[k].name]

(***************************************************************************)
(* Inputs                                                                  *)
(***************************************************************************)
\* params are bound to 0..MaxParam
MaxParam == 2

NoParams == <<>>
Bind(name, v) == [n \in {name} |-> Num(v)]

NoRands == <<Num(0)>>
Input(a, p, q, e, r) ==
    [kind |-> "program", ast |-> a, params |-> p, query |-> q, engine |-> e,
     rands |-> r, ir |-> EmptyIR, source |-> <<>>, tokens |-> <<>>]
\* a stack IR handed to vm::run as it is
IRInput(instructions, meta, p) ==
    [kind |-> "ir", ast |-> <<>>, params |-> p, query |-> <<>>, engine |-> "vm",
     rands |-> NoRands, ir |-> [instructions |-> instructions, meta |-> meta],
     source |-> <<>>, tokens |-> <<>>]
\* a code file given to the command line with `--query q --engine e`
TextInput(text, p, q, e) ==
    [kind |-> "text", ast |-> <<>>, params |-> p, query |-> q, engine |-> e,
     rands |-> NoRands, ir |-> EmptyIR, source |-> text, tokens |-> <<>>]
\* a token list handed to parse as it is
TokenInput(toks, p, q) ==
    [kind |-> "tokens", ast |-> <<>>, params |-> p, query |-> q, engine |-> "ast",
     rands |-> NoRands, ir |-> EmptyIR, source |-> <<>>, tokens |-> toks]

\* `param p; cell a: E;` for every arithmetic operator and every comparison,
\* and for calls of rand, of int and of a function that does not exist
ArithOperands == {N(1), N(2), Ident("p")}
ArithExprs ==
    {Bin(k, x, y) : k \in BinKinds, x \in ArithOperands, y \in ArithOperands}
    \cup {Condition(x[1], op, x[2], N(10), N(20)) :
            op \in Operators, x \in ArithOperands \X ArithOperands}
    \cup {Bin(k[1], Bin(k[2], N(5), Ident("p")), N(3)) : k \in BinKinds \X BinKinds}
    \cup {Bin(k[1], N(5), Bin(k[2], Ident("p"), N(3))) : k \in BinKinds \X BinKinds}
    \cup {Condition(Ident("p"), op, N(1),
                    Condition(N(2), op, Ident("p"), N(10), N(20)),
                    Bin("Sub", Condition(Ident("p"), op, N(0), N(30), N(40)), N(1))) :
            op \in Operators}
    \cup {Call("foo", x) : x \in {<<>>, <<N(1)>>, <<N(1), Ident("p")>>}}
    \cup {Call("rand", <<>>), Call("int", <<Ident("p")>>), Bin("Add", N(1), Call("foo", <<>>))}
    \cup {Call("int", <<Bin(k, x, N(2))>>) : k \in BinKinds, x \in ArithOperands}

ArithBindings == {Bind("p", v) : v \in 0..MaxParam} \cup {NoParams}

\* `param p; cell a: E;` where E calls rand or int with a number of
\* arguments that the function does not take
ArityExprs ==
    {Call("int", <<>>), Call("int", <<N(1), N(2)>>), Call("rand", <<N(1)>>),
     Call("rand", <<N(1), Ident("p")>>), Bin("Add", N(1), Call("rand", <<Ident("p")>>)),
     Call("int", <<Call("rand", <<N(2)>>)>>)}

\* `cell c: rand(); cell a: E;` where E refers to c twice
TwiceExprs ==
    {Bin("Sub", Ident("c"), Ident("c")),
     Condition(Ident("c"), "Equals", Ident("c"), N(0), N(1)),
     Bin("Sub", Ident("c"), Bin("Add", Ident("c"), N(0)))}
TwicePrograms == {<<Cell("c", Call("rand", <<>>)), Cell("a", e)>> : e \in TwiceExprs}

\* the program of cranelift.rs test_example_1, and programs over two params
\* p and q: `param p; param q; cell a: E;`, with the params bound to the
\* input array of jit_compile's call
JitTest ==
    <<Param("test1"), Param("test2"),
      Cell("a", Bin("Add", Ident("test1"), Bin("Add", N(13), N(2)))),
      Cell("b", Bin("Add", Ident("test1"), Bin("Add", Ident("test2"), Ident("a"))))>>
TwoParamExprs ==
    {Ident("p"), Ident("q"),
     Bin("Add", N(1), Bin("Add", N(1), Bin("Add", N(1), Bin("Add", N(1), N(1)))))}
    \cup {Bin(k, Ident(x[1]), Ident(x[2])) : k \in BinKinds, x \in {<<"p", "q">>, <<"q", "p">>}}
    \cup {Condition(Ident(x[1]), op, Ident(x[2]), Ident("p"), Bin("Add", Ident("q"), N(1))) :
            op \in Operators, x \in {<<"p", "q">>, <<"q", "p">>, <<"p", "p">>}}
TwoParamPrograms ==
    {JitTest, <<Param("p"), Param("q"), Cell("a", Ident("p")), Cell("b", Ident("a"))>>}
    \cup {<<Param("p"), Param("q"), Cell("a", e)>> : e \in TwoParamExprs}
JitBindings(a) ==
    [n \in ParamNames(a) |-> JitIn[JitPosition(ParamOrder(a), n) + 1]]

\* the ways an expression can hold a reference to x
Wrappers(x) ==
    {Ident(x), Bin("Add", N(1), Ident(x)), Bin("Add", Ident(x), N(1)),
     Condition(Ident(x), "Greater", N(0), N(1), N(2)),
     Condition(N(1), "Greater", N(0), Ident(x), N(2)),
     Condition(N(0), "Greater", N(1), N(2), Ident(x)),
     Call("int", <<Ident(x)>>)}

\* `param p; cell a: E; cell b: F;` where E and F refer to a, b, p or to u,
\* which is not declared
PairPool == {N(1)} \cup UNION {Wrappers(x) : x \in {"a", "b", "p", "u"}}
PairPrograms == {<<Param("p"), Cell("a", e[1]), Cell("b", e[2])>> : e \in PairPool \X PairPool}
PairQueries ==
    {<<x>> : x \in {"a", "b", "p"}}
    \cup {<<x[1], x[2]>> : x \in {y \in {"a", "b", "p"} \X {"a", "b", "p"} : y[1] # y[2]}}

\* `param p; cell a: E; cell b: F; cell c: G;`: every dependency graph over
\* three cells and a param
GraphNames == {"a", "b", "c", "p"}
GraphPool ==
    {N(1)} \cup {Ident(x) : x \in GraphNames}
    \cup {Bin("Add", N(1), Ident(x)) : x \in GraphNames \ {"p"}}
    \cup {Bin("Add", Ident(x[1]), Ident(x[2])) :
            x \in {y \in GraphNames \X GraphNames :
                     \E i, j \in 1..Len(NameOrder) :
                        i < j /\ NameOrder[i] = y[1] /\ NameOrder[j] = y[2]}}
GraphPrograms ==
    {<<Param("p"), Cell("a", e[1]), Cell("b", e[2]), Cell("c", e[3])>> :
        e \in GraphPool \X GraphPool \X GraphPool}

\* the two example programs of the repository
RandSources == {<<Num(0)>>, <<Norm(1, 2)>>, <<Norm(1, 4), Norm(3, 4)>>}
Engines == {"ast", "vm", "ir"}

\* `cell a: 1 + 1 + ... + 1;` with as many operators as the accumulator
\* interpreter has temporaries, and with one more
RECURSIVE RightChain(_)
RightChain(n) == IF n = 0 THEN N(1) ELSE Bin("Add", N(1), RightChain(n - 1))
DeepExprs == {RightChain(AccStackSize), RightChain(AccStackSize + 1)}

\* stack IRs of one and two instructions
HandInsts ==
    {Inst("LoadConst", Num(1)), Inst("LoadConst", Num(0)), Inst("LoadParam", "p"),
     Inst("Read", 0), Inst("Read", 1), Inst("Read", StackSize), Inst("Nop", 0),
     Inst("JMP", 2), Inst("JMPIfFalse", 2),
     Inst("Call", "rand"), Inst("Call", "int"), Inst("Call", "foo")}
    \cup {Inst(op, 0) : op \in VmBinaryOps}
RECURSIVE Pushes(_)
Pushes(n) == IF n = 0 THEN <<>> ELSE Append(Pushes(n - 1), Inst("LoadConst", Num(1)))
HandIRs ==
    {<<i>> : i \in HandInsts} \cup {<<i[1], i[2]>> : i \in HandInsts \X HandInsts}
    \cup {Pushes(StackSize), Pushes(StackSize + 1)}
HandMetas == {<<>>, <<<<"a", 0>>>>}

\* code files `cell a: E;`: chains of two operators over 1, 2 and 3, with
\* and without parentheses, calls well and ill formed, a conditional, a
\* param, and files that are no program
OpChars == {"+", "-", "*", "/", "%"}
CellA == <<"c", "e", "l", "l", " ", "a", ":", " ">>
IntOpen == <<"i", "n", "t", "(">>
ChainTexts ==
    {<<"1", " ", c[1], " ", "2", " ", c[2], " ", "3">> : c \in OpChars \X OpChars}
    \cup {<<"(", "1", " ", c[1], " ", "2", ")", " ", c[2], " ", "3">> :
            c \in OpChars \X OpChars}
CallTexts ==
    {IntOpen \o x :
        x \in {<<")">>, <<"1", ")">>, <<"1", ",", " ", "2", ")">>, <<"1", ",", ")">>,
                <<"1">>, <<>>, <<",", ")">>, <<"1", " ", "2", ")">>, <<";">>,
                <<"1", "+", ";">>, <<"1", ".", "5", ")", "+", "1">>}}
OtherTexts ==
    {<<"i", "f", " ", "1", " ", "+", " ", "2", " ", ">", " ", "4", " ", "?", " ",
       "1", "0", " ", ":", " ", "2", "0">>,
     <<"i", "f", " ", "2", "<", "=", "1", "?", "1", ":", "-", "1">>,
     <<"i", "f", " ", "2", "=", "=", "2", "?", "1", ":", "0">>,
     <<"i", "f", " ", "2", "=", "2", "?", "1", ":", "0">>,
     <<"1", ".", ".", "2">>, <<"1", "-", "2">>, <<"-", "1", "2", ".", "5", "*", "(", "2", ")">>,
     <<"1", " ", "#", "x", "\n">>, <<"1", "$">>, <<"b">>, <<"5", " ", "%", " ", "2">>,
     <<"1", ".", "5", ".", "2">>, <<"1", ".">>, <<"1", "2", " ", "#", EAcute>>,
     <<ArabicThree>>, <<"b", EAcute>>, <<NoBreakSpace, "1">>, <<"1", NoBreakSpace>>,
     <<EAcute>>}
SourceTexts ==
    {CellA \o e \o <<";">> : e \in ChainTexts \cup CallTexts \cup OtherTexts}
    \cup {<<"p", "a", "r", "a", "m", " ", "p", ";", "\n", "c", "e", "l", "l", " ", "a", ":",
             "p", "*", "2", ";">>,
           <<"p", "a", "r", "a", "m", " ", "p">>, <<"c", "e", "l", "l", " ", "a", " ", "1", ";">>,
           <<"c", "e", "l", "l", " ", "a", ":", "1">>, <<"a", ";">>, <<>>,
           <<"#", EAcute, "\n">> \o CellA \o <<"1", "2", ";">>,
           <<"#", EAcute, EAcute, EAcute, EAcute, EAcute, "\n", "b", " ", "1", "2", ";">>,
           <<"#", EAcute, "\n", "1", "2">>}

\* token lists `cell a : P1 op1 P2 op2 P3 ;` over four kinds of primary and
\* the five operator tokens, each primary with the expression it stands for
NumberTok(c) == TokText("Number", <<c>>)
IdentTok(name) == TokText("Ident", name)
Primaries ==
    {[toks |-> <<NumberTok("1")>>, expr |-> N(1)],
     [toks |-> <<IdentTok(<<"p">>)>>, expr |-> Ident("p")],
     [toks |-> <<IdentTok(<<"i", "n", "t">>), Tok("ParOpen"), NumberTok("2"), Tok("ParClose")>>,
      expr |-> Call("int", <<N(2)>>)],
     [toks |-> <<Tok("ParOpen"), NumberTok("1"), Tok("Add"), NumberTok("2"), Tok("ParClose")>>,
      expr |-> Bin("Add", N(1), N(2))]}
CellTokens(toks) ==
    <<Tok("Cell"), IdentTok(<<"a">>), Tok("Colon")>> \o toks \o <<Tok("SemiColon")>>
Chain(p1, op1, p2, op2, p3) ==
    [tokens |-> CellTokens(p1.toks \o <<Tok(op1)>> \o p2.toks \o <<Tok(op2)>> \o p3.toks),
     expr |-> Bin(op1, p1.expr, Bin(op2, p2.expr, p3.expr))]
Chains ==
    {Chain(p[1], op[1], p[2], op[2], p[3]) :
        p \in Primaries \X Primaries \X Primaries, op \in BinKinds \X BinKinds}

\* token lists `cell a : int ( X ;` for every X of at most MaxArgTokens
\* tokens out of a number, `,`, `+` and `)`
MaxArgTokens == 4
ArgTokens == {NumberTok("1"), Tok("Comma"), Tok("Add"), Tok("ParClose")}
ArgLists == UNION {[1..n -> ArgTokens] : n \in 0..MaxArgTokens}
CallTokens(x) == CellTokens(<<IdentTok(<<"i", "n", "t">>), Tok("ParOpen")>> \o x)

(***************************************************************************)
(* The evaluation of one input: code_gen and the lowering, then            *)
(* ast_interpreter::run, then the engine's run                             *)
(***************************************************************************)
NotRun == RunResult("none", "", <<>>, <<>>, 0)
NotScanned == [st |-> "none", v |-> <<>>]

Start(input) ==
    /\ program = input.ast
    /\ bindings = input.params
    /\ query = input.query
    /\ engine = input.engine
    /\ rands = input.rands
    /\ pc = CASE input.kind = "ir" -> "run"
               [] input.kind = "text" -> "scan"
               [] input.kind = "tokens" -> "parse"
               [] OTHER -> "start"
    /\ exec_order = [st |-> "none", v |-> <<>>]
    /\ cg = [st |-> "none", v |-> <<>>]
    /\ sir = input.ir
    /\ astResult = NotRun
    /\ vm = Machine(IF input.kind = "ir" THEN "running" ELSE "none", 0, StackDefault, 0)
    /\ vmResult = <<>>
    /\ acc = AccMachine("none", 0, AccDefault, 0)
    /\ accResult = <<>>
    /\ source = input.source
    /\ scanned = IF input.kind = "tokens" THEN Ok(input.tokens) ELSE NotScanned
    /\ parsed = NotScanned
    /\ exit = -1
    /\ jit = JitNone
    /\ native = NativeNone

Init ==
    \/ \E e \in ArithExprs, b \in ArithBindings, eng \in {"vm", "ir"} :
            Start(Input(<<Param("p"), Cell("a", e)>>, b, <<"a">>, eng, NoRands))
    \/ \E e \in ArityExprs, eng \in Engines, r \in RandSources :
            Start(Input(<<Param("p"), Cell("a", e)>>, Bind("p", 1), <<"a">>, eng, r))
    \/ \E a \in TwicePrograms, eng \in Engines, r \in RandSources, q \in {<<"a">>, <<"c", "a">>} :
            Start(Input(a, NoParams, q, eng, r))
    \/ \E e \in ArithExprs :
            Start(Input(<<Param("p"), Cell("a", e)>>, Bind("p", 1), <<"a">>, "jit", NoRands))
    \/ \E a \in TwoParamPrograms, eng \in {"jit", "vm"} :
            Start(Input(a, JitBindings(a), <<"a">>, eng, NoRands))
    \/ \E a \in PairPrograms, q \in PairQueries :
            Start(Input(a, Bind("p", 1), q, "ast", NoRands))
    \/ \E a \in PairPrograms, eng \in {"vm", "ir"} :
            Start(Input(a, Bind("p", 1), <<"a", "b">>, eng, NoRands))
    \/ \E a \in GraphPrograms, x \in GraphNames :
            Start(Input(a, Bind("p", 1), <<x>>, "ast", NoRands))
    \/ \E a \in GraphPrograms, eng \in {"vm", "ir"} :
            Start(Input(a, Bind("p", 1), <<"a", "b", "c">>, eng, NoRands))
    \/ \E v \in [{"p1", "p2"} -> 0..MaxParam], eng \in Engines,
          q \in {<<"test">>, <<"c", "a", "test">>} :
            Start(Input(Example1, [n \in {"p1", "p2"} |-> Num(v[n])], q, eng, NoRands))
    \/ \E v \in 0..MaxParam, eng \in Engines, r \in RandSources,
          q \in {<<"V">>, <<"F", "f", "t", "m", "V">>} :
            Start(Input(Example2, Bind("studentnumber", v), q, eng, r))
    \/ \E e \in DeepExprs, eng \in {"vm", "ir"} :
            Start(Input(<<Cell("a", e)>>, NoParams, <<"a">>, eng, NoRands))
    \/ \E is \in HandIRs, m \in HandMetas, b \in {Bind("p", 1), NoParams} :
            Start(IRInput(is, m, b))
    \/ \E text \in SourceTexts : Start(TextInput(text, Bind("p", 1), <<"a">>, "vm"))
    \/ \E c \in Chains : Start(TokenInput(c.tokens, Bind("p", 1), <<"a">>))
    \/ \E x \in ArgLists : Start(TokenInput(CallTokens(x), Bind("p", 1), <<"a">>))

\* ir::code_gen (and the lowering to the stack IR for the VM)
CodeGenStep ==
    /\ pc = "start"
    /\ engine # "ast"
    /\ exec_order' = GetOrderOfExecution(program)
    /\ cg' = CodeGen(program)
    /\ sir' = LowerStack(program).v
    /\ pc' = IF cg'.st = "ok" /\ LowerStack(program).st = "ok" THEN "ast" ELSE "done"
    /\ UNCHANGED <<program, bindings, query, engine, rands, astResult, vm, vmResult, acc, accResult>>
    /\ UNCHANGED front
    /\ UNCHANGED back

\* ast_interpreter::run(&program, cell_names, &bindings)
AstRun ==
    /\ \/ pc = "start" /\ engine = "ast"
       \/ pc = "ast"
    /\ astResult' = AstRunOf(program, query, bindings)
    /\ pc' = IF engine = "ast" THEN "done" ELSE "run"
    /\ vm' = IF engine = "vm" THEN Machine("running", 0, StackDefault, 0) ELSE vm
    /\ acc' = IF engine = "ir" THEN AccMachine("running", 0, AccDefault, 0) ELSE acc
    /\ jit' = IF engine = "jit" THEN Jit("running", 0, 0, <<>>, <<>>) ELSE jit
    /\ UNCHANGED <<program, bindings, query, engine, rands, exec_order, cg, sir, vmResult, accResult>>
    /\ UNCHANGED front
    /\ UNCHANGED native

\* vm::run: one turn of `while let Some(inst) = ir.instructions.get(ip)`
VMStep ==
    /\ pc = "run" /\ engine = "vm" /\ vm.status = "running"
    /\ vm.ip < Len(sir.instructions)
    /\ vm' = VmExec(sir.instructions[vm.ip + 1], vm.ip, vm.stack, bindings, vm.ri)
    /\ pc' = IF vm'.status = "running" THEN "run" ELSE "done"
    /\ UNCHANGED <<program, bindings, query, engine, rands, exec_order, cg, sir, astResult, vmResult,
                   acc, accResult>>
    /\ UNCHANGED front
    /\ UNCHANGED back

\* vm::run after the loop: the result map, collected into the list returned
VMFinish ==
    /\ pc = "run" /\ engine = "vm" /\ vm.status = "running"
    /\ vm.ip >= Len(sir.instructions)
    /\ LET map == VmResultMap(sir.meta, vm.stack)
       IN  IF map.st = "panic"
             THEN vm' = [vm EXCEPT !.status = "panic"] /\ vmResult' = <<>>
           ELSE /\ vm' = [vm EXCEPT !.status = "ok"]
                /\ \E order \in HashMapOrders(map.v) : vmResult' = Collect(map.v, order)
    /\ pc' = "done"
    /\ UNCHANGED <<program, bindings, query, engine, rands, exec_order, cg, sir, astResult, acc, accResult>>
    /\ UNCHANGED front
    /\ UNCHANGED back

\* ir_interpreter::run: one turn of its while loop
IrStep ==
    /\ pc = "run" /\ engine = "ir" /\ acc.status = "running"
    /\ acc.ip < Len(cg.v)
    /\ acc' = AccExec(cg.v[acc.ip + 1], acc.ip, acc.regs, bindings, acc.ri)
    /\ pc' = IF acc'.status = "running" THEN "run" ELSE "done"
    /\ UNCHANGED <<program, bindings, query, engine, rands, exec_order, cg, sir, astResult, vm, vmResult,
                   accResult>>
    /\ UNCHANGED front
    /\ UNCHANGED back

\* ir_interpreter::run after the loop: Ok(result.into_iter().collect())
IrFinish ==
    /\ pc = "run" /\ engine = "ir" /\ acc.status = "running"
    /\ acc.ip >= Len(cg.v)
    /\ acc' = [acc EXCEPT !.status = "ok"]
    /\ \E order \in HashMapOrders(AccResultMap(acc.regs.result)) :
            accResult' = Collect(AccResultMap(acc.regs.result), order)
    /\ pc' = "done"
    /\ UNCHANGED <<program, bindings, query, engine, rands, exec_order, cg, sir, astResult, vm, vmResult>>
    /\ UNCHANGED front
    /\ UNCHANGED back

\* jit_compile: one turn of the loop of lines 149-285
JitStep ==
    /\ pc = "run" /\ engine = "jit" /\ jit.status = "running"
    /\ jit.i < Len(sir.instructions)
    /\ jit' = JitTurn(sir.instructions[jit.i + 1], jit.i, jit, ParamOrder(program))
    /\ pc' = IF jit'.status = "running" THEN "run" ELSE "done"
    /\ UNCHANGED <<program, bindings, query, engine, rands, exec_order, cg, sir, astResult,
                   vm, vmResult, acc, accResult, native>>
    /\ UNCHANGED front

\* jit_compile after the loop, lines 311-365: the stores and the return are
\* emitted and the function is defined; a function that is ill-formed may
\* make the code generator panic
JitDefine ==
    /\ pc = "run" /\ engine = "jit" /\ jit.status = "running"
    /\ jit.i >= Len(sir.instructions)
    /\ \E taken \in (IF JitIllFormed(sir.instructions) THEN {TRUE, FALSE} ELSE {TRUE}) :
            /\ jit' = [jit EXCEPT !.status = IF taken THEN "built" ELSE "panic"]
            /\ native' = IF taken
                            THEN Native("running", 0, [k \in 1..jit.stack_vars |-> Num(0)],
                                        [k \in 1..JitOutLen |-> Num(0)])
                          ELSE native
            /\ pc' = IF taken THEN "run" ELSE "done"
    /\ UNCHANGED <<program, bindings, query, engine, rands, exec_order, cg, sir, astResult,
                   vm, vmResult, acc, accResult>>
    /\ UNCHANGED front

\* line 369, code_fn(in, out): the code of one instruction of the IR runs
NativeStep ==
    /\ pc = "run" /\ engine = "jit" /\ jit.status = "built" /\ native.status = "running"
    /\ native.ip < Len(jit.ops)
    /\ native' = NativeExec(jit.ops[native.ip + 1], native.ip, native.env, native.out)
    /\ UNCHANGED <<program, bindings, query, engine, rands, pc, exec_order, cg, sir, astResult,
                   vm, vmResult, acc, accResult, jit>>
    /\ UNCHANGED front

\* the last block of the function: the stores and the return.  A store
\* beyond the out array of line 368 writes outside it, which the process
\* may or may not survive.
NativeReturn ==
    /\ pc = "run" /\ engine = "jit" /\ jit.status = "built" /\ native.status = "running"
    /\ native.ip >= Len(jit.ops)
    /\ \E st \in (IF jit.stack_vars > JitOutLen THEN {"ok", "crash"} ELSE {"ok"}) :
            native' = [native EXCEPT !.status = st, !.out = NativeStores(native.env)]
    /\ pc' = "done"
    /\ UNCHANGED <<program, bindings, query, engine, rands, exec_order, cg, sir, astResult,
                   vm, vmResult, acc, accResult, jit>>
    /\ UNCHANGED front

\* cli::run: scan(&content)
ScanStep ==
    /\ pc = "scan"
    /\ scanned' = Scan(source)
    /\ pc' = IF scanned'.st = "ok" THEN "parse" ELSE "done"
    /\ UNCHANGED <<program, bindings, query, engine, rands, exec_order, cg, sir, astResult,
                   vm, vmResult, acc, accResult, source, parsed, exit>>
    /\ UNCHANGED back

\* parse(tokens): the AST the rest of the run works on
ParseStep ==
    /\ pc = "parse"
    /\ parsed' = Parse(scanned.v)
    /\ program' = IF parsed'.st = "ok" THEN parsed'.v ELSE program
    /\ pc' = IF parsed'.st = "ok" THEN "start" ELSE "done"
    /\ UNCHANGED <<bindings, query, engine, rands, exec_order, cg, sir, astResult,
                   vm, vmResult, acc, accResult, source, scanned, exit>>
    /\ UNCHANGED back

\* whether cli::run returned an Err
RunReturnedErr == scanned.st = "err" \/ parsed.st = "err" \/ cg.st = "err"

\* how the stages of the run ended
Outcomes ==
    {scanned.st, parsed.st, exec_order.st, cg.st}
    \cup (CASE engine = "ast" -> {astResult.st}
           [] engine = "vm" -> {vm.status}
           [] engine = "ir" -> {acc.status}
           [] engine = "jit" -> {jit.status, native.status})

\* main prints the Err of cli::run and returns, so the status is then that of
\* a main that returned; a panic ends the process with 101, a stack
\* overflow aborts it (SIGABRT, 134) and a fault in the native code kills it
\* (SIGSEGV, 139)
ExitStatus ==
    IF "panic" \in Outcomes THEN 101
    ELSE IF "overflow" \in Outcomes THEN 134
    ELSE IF "crash" \in Outcomes THEN 139
    ELSE 0

\* main: the process ends
MainReturn ==
    /\ pc = "done"
    /\ exit' = ExitStatus
    /\ pc' = "exited"
    /\ UNCHANGED <<program, bindings, query, engine, rands, exec_order, cg, sir, astResult,
                   vm, vmResult, acc, accResult, source, scanned, parsed>>
    /\ UNCHANGED back

Next ==
    \/ ScanStep \/ ParseStep \/ CodeGenStep \/ AstRun \/ VMStep \/ VMFinish
    \/ IrStep \/ IrFinish \/ JitStep \/ JitDefine \/ NativeStep \/ NativeReturn
    \/ MainReturn

Spec == Init /\ [][Next]_vars

(***************************************************************************)
(* Vocabulary of the properties                                            *)
(***************************************************************************)
\* expr contains a node of one of the kinds, or a comparison with one of them
\* as its operator
RECURSIVE Mentions(_, _)
Mentions(expr, kinds) ==
    \/ expr.kind \in kinds
    \/ expr.kind \in BinKinds /\ (Mentions(expr.l, kinds) \/ Mentions(expr.r, kinds))
    \/ /\ expr.kind = "Condition"
       /\ \/ expr.op \in kinds
          \/ Mentions(expr.lhs, kinds) \/ Mentions(expr.rhs, kinds)
          \/ Mentions(expr.true_branch, kinds) \/ Mentions(expr.false_branch, kinds)
    \/ expr.kind = "Call" /\ \E i \in 1..Len(expr.arguments) : Mentions(expr.arguments[i], kinds)

ProgramMentions(kinds) ==
    \E i \in 1..Len(program) : program[i].kind = "Cell" /\ Mentions(program[i].expr, kinds)

AllParamsBound == ParamNames(program) \subseteq DOMAIN bindings

\* the names reachable from the names of S along declared dependencies
RECURSIVE Closure(_, _)
Closure(graph, S) ==
    LET T == S \cup UNION {Range(graph[n]) \cap DOMAIN graph : n \in S}
    IN  IF T = S THEN S ELSE Closure(graph, T)

DependenciesOf(graph, n) == Closure(graph, Range(graph[n]) \cap DOMAIN graph)
OnCycle(graph, n) == n \in DOMAIN graph /\ n \in DependenciesOf(graph, n)
HasCycle(graph) == \E n \in DOMAIN graph : OnCycle(graph, n)
ReferencesUndeclared(graph) == \E n \in DOMAIN graph : ~(Range(graph[n]) \subseteq DOMAIN graph)

ValueIn(results, name, v) == \E i \in 1..Len(results) : results[i] = <<name, v>>
NamesOf(results) == [i \in 1..Len(results) |-> results[i][1]]

\* the instruction the VM is at, and the one the accumulator interpreter is at
VmAt(op) ==
    /\ pc = "run" /\ engine = "vm" /\ vm.status = "running"
    /\ vm.ip < Len(sir.instructions)
    /\ sir.instructions[vm.ip + 1].op = op
AccAt(op) ==
    /\ pc = "run" /\ engine = "ir" /\ acc.status = "running"
    /\ acc.ip < Len(cg.v)
    /\ cg.v[acc.ip + 1].op = op

(***************************************************************************)
(* C1.  On every program without calls that lowers, with all its params    *)
(* bound, vm::run and ast_interpreter::run return the same value for every *)
(* cell asked for.                                                         *)
(***************************************************************************)
C1_VmAgreesWithAst ==
    (/\ pc = "done" /\ engine = "vm" /\ program # <<>>
     /\ ~ProgramMentions({"Call"}) /\ AllParamsBound
     /\ vm.status = "ok" /\ astResult.st = "ok")
    => \A i \in 1..Len(astResult.results) :
            ValueIn(vmResult, astResult.results[i][1], astResult.results[i][2])

(***************************************************************************)
(* C2.  ast_interpreter::run asked for one cell that lies on a dependency  *)
(* cycle returns the cyclic-dependency error.                              *)
(***************************************************************************)
C2_CycleIsReported ==
    (/\ pc = "done" /\ engine = "ast" /\ Len(query) = 1
     /\ query[1] \in CellNames(program) /\ OnCycle(DepMap(program), query[1]))
    => astResult.st = "err" /\ astResult.msg = "cyclic dependency found"

(***************************************************************************)
(* C3.  code_gen applied to a program with a dependency cycle returns an   *)
(* error to its caller.                                                    *)
(***************************************************************************)
C3_CodeGenReportsCycle ==
    (cg.st # "none" /\ HasCycle(DepMap(program))) => cg.st = "err"

(***************************************************************************)
(* C4.  code_gen returns Err exactly when some cell refers to a name that  *)
(* is declared neither as a param nor as a cell.                           *)
(***************************************************************************)
C4_ErrIffUndeclared ==
    cg.st # "none" => (cg.st = "err" <=> ReferencesUndeclared(DepMap(program)))

(***************************************************************************)
(* C5.  For an acyclic program whose names are all declared,               *)
(* get_order_of_execution returns an order that holds every declared name  *)
(* and in which every occurrence of a name comes after an occurrence of    *)
(* each name its expression uses.                                          *)
(***************************************************************************)
C5_DependenciesFirst ==
    (/\ exec_order.st # "none"
     /\ ~HasCycle(DepMap(program)) /\ ~ReferencesUndeclared(DepMap(program)))
    => /\ exec_order.st = "ok"
       /\ Range(exec_order.v) = DeclaredNames(program)
       /\ \A i \in 1..Len(exec_order.v) :
            \A d \in Range(DepMap(program)[exec_order.v[i]]) :
                \E j \in 1..(i - 1) : exec_order.v[j] = d

\* the two orders of test_get_order_of_execution
C5_Witness ==
    /\ exec_order.st = "ok"
    /\ \/ program = Example1 /\ exec_order.v = <<"p1", "c", "a", "p2", "test">>
       \/ program = Example2
            /\ exec_order.v = <<"F", "studentnumber", "f", "t", "m", "V">>
    /\ pc = "done"

(***************************************************************************)
(* C6.  As stated: the list vm::run returns names the params and cells in  *)
(* the insertion order of the IR metadata.                                 *)
(***************************************************************************)
MetaNames == [i \in 1..Len(sir.meta) |-> sir.meta[i][1]]
VmReturned == pc = "done" /\ engine = "vm" /\ vm.status = "ok"

C6_MetadataOrder == VmReturned => NamesOf(vmResult) = MetaNames

\* C6, corrected: the list vm::run returns holds exactly one pair for every
\* name of the IR metadata, with the value the stack holds at the name's
\* slot; the order of the pairs is any order.
C6_OnePairPerName ==
    VmReturned =>
        /\ Len(vmResult) = Cardinality(Range(MetaNames))
        /\ Range(NamesOf(vmResult)) = Range(MetaNames)
        /\ \A i \in 1..Len(vmResult) :
            \E k \in 1..Len(sir.meta) :
                /\ sir.meta[k][1] = vmResult[i][1]
                /\ vmResult[i][2] = vm.stack.data[sir.meta[k][2] + 1]

\* a list returned in another order than the metadata's
C6_Witness ==
    VmReturned /\ Len(vmResult) >= 3 /\ NamesOf(vmResult) # MetaNames

(***************************************************************************)
(* C7.  Neither vm::run nor ir_interpreter::run ever aborts on an index    *)
(* outside its array: a pop from the empty stack, a push onto the full     *)
(* one and a temporary beyond the array are returned as errors.            *)
(***************************************************************************)
C7_ArrayFaultsAreErrors == vm.status # "panic" /\ acc.status # "panic"

(***************************************************************************)
(* C8.  When vm::run executes Call(name) with a name other than rand and   *)
(* int, it returns an error and no result list.                            *)
(***************************************************************************)
C8_UnknownCallFails ==
    [][(VmAt("Call") /\ sir.instructions[vm.ip + 1].arg \notin {"rand", "int"})
        => (vm'.status = "err" /\ pc' = "done" /\ vmResult' = <<>>)]_vars

(***************************************************************************)
(* C9.  A declared param without a binding makes evaluation fail with no   *)
(* results: vm::run and ir_interpreter::run fail when they execute the     *)
(* LoadParam of a name that params does not hold, and ast_interpreter::run *)
(* fails when any declared param is missing from params.                   *)
(***************************************************************************)
C9_MissingParamFails ==
    [][/\ (VmAt("LoadParam") /\ sir.instructions[vm.ip + 1].arg \notin DOMAIN bindings)
            => (vm'.status = "err" /\ pc' = "done" /\ vmResult' = <<>>)
       /\ (AccAt("LoadParam") /\ cg.v[acc.ip + 1].param \notin DOMAIN bindings)
            => (acc'.status = "err" /\ pc' = "done" /\ accResult' = <<>>)
       /\ (astResult.st = "none" /\ astResult'.st # "none" /\ ~AllParamsBound)
            => (/\ astResult'.st = "err" /\ astResult'.msg = "param not found"
                /\ astResult'.results = <<>>)]_vars

\* both evaluators of one input have failed on the unbound param
C9_Witness ==
    /\ pc = "done" /\ engine = "vm" /\ ~AllParamsBound
    /\ astResult.st = "err" /\ astResult.msg = "param not found"
    /\ vm.status = "err" /\ vmResult = <<>>
    /\ sir.instructions[vm.ip + 1].op = "LoadParam"

(***************************************************************************)
(* C10.  The first example program with p1 = 1 and p2 = 2.                 *)
(***************************************************************************)
Example1Bound ==
    /\ program = Example1
    /\ bindings = [n \in {"p1", "p2"} |-> IF n = "p1" THEN Num(1) ELSE Num(2)]

\* the order is [p1, c, a, p2, test], and the AST interpreter, the VM and the
\* accumulator interpreter all return v for test
Example1Yields(v) ==
    Example1Bound =>
        /\ exec_order.st # "none" => exec_order = Ok(<<"p1", "c", "a", "p2", "test">>)
        /\ (astResult.st # "none" /\ Contains(query, "test"))
                => (astResult.st = "ok" /\ ValueIn(astResult.results, "test", v))
        /\ (pc = "done" /\ engine = "vm") => (vm.status = "ok" /\ ValueIn(vmResult, "test", v))
        /\ (pc = "done" /\ engine = "ir")
                => (acc.status = "ok" /\ ValueIn(accResult, "test", v))

\* C10, as stated: the dependency order is [p1, c, a, p2, test] and the value
\* of test is 7.0 on every engine.
C10_TestIsSeven == Example1Yields(Num(7))

\* C10, corrected: the dependency order is [p1, c, a, p2, test] and the value
\* of test is 29/3 (a is 7, and the operators group to the right:
\* 1 + 2 * (2 + 7 * (1 / 3))) on the AST interpreter, the VM and the
\* accumulator interpreter.
C10_TestIsTwentyNineThirds == Example1Yields(Norm(29, 3))

C10_Witness ==
    /\ Example1Bound /\ pc = "done" /\ engine = "vm" /\ vm.status = "ok"
    /\ astResult.st = "ok" /\ Contains(query, "test")
    /\ exec_order.st = "ok"

(***************************************************************************)
(* C11.  parse groups a chain of two binary operators to the right         *)
(* whatever the operators are: the tokens `cell a : P1 op1 P2 op2 P3 ;`    *)
(* parse to op1(P1, op2(P2, P3)) for every choice of + - * / % and of      *)
(* primaries (a number, a name, a call, a parenthesised expression), so    *)
(* `(1 + 2) + 3` is Add(Add(1, 2), 3) and `1 - 2 - 3` is Sub(1, Sub(2, 3)).*)
(***************************************************************************)
SourceOf(e) == CellA \o e \o <<";">>
ParsedTo(expr) == parsed.st = "ok" /\ parsed.v = <<Cell("a", expr)>>

C11_RightGrouping ==
    parsed.st # "none" =>
        /\ \A c \in Chains : scanned.v = c.tokens => ParsedTo(c.expr)
        /\ source = SourceOf(<<"(", "1", " ", "+", " ", "2", ")", " ", "+", " ", "3">>)
                => ParsedTo(Bin("Add", Bin("Add", N(1), N(2)), N(3)))
        /\ source = SourceOf(<<"1", " ", "-", " ", "2", " ", "-", " ", "3">>)
                => ParsedTo(Bin("Sub", N(1), Bin("Sub", N(2), N(3))))

\* parse has returned for `cell a : ( 1 + 2 ) - p % int ( 2 ) ;`
C11_Witness ==
    /\ parsed.st = "ok"
    /\ \E p \in Primaries \X Primaries \X Primaries :
        /\ p[1].expr = Bin("Add", N(1), N(2)) /\ p[2].expr = Ident("p")
        /\ p[3].expr = Call("int", <<N(2)>>)
        /\ scanned.v = Chain(p[1], "Sub", p[2], "Mod", p[3]).tokens
        /\ parsed.v = <<Cell("a", Bin("Sub", Bin("Add", N(1), N(2)),
                                      Bin("Mod", Ident("p"), Call("int", <<N(2)>>))))>>

(***************************************************************************)
(* C12.  parse accepts a call only when its tokens are                     *)
(* IDENT ( [ expr { , expr } ] ): of the token lists `cell a : int ( X ;`  *)
(* it accepts those where X is a well-formed argument list followed by `)`,*)
(* an empty list giving a call of zero arguments, and rejects the others,  *)
(* among them a trailing comma before `)` and a missing `)`.               *)
(***************************************************************************)
\* x is `)` or `expr { , expr } )`, an expr of these tokens being numbers
\* joined by `+`
WellFormedArgs(x) ==
    /\ x # <<>> /\ x[Len(x)] = Tok("ParClose")
    /\ \A i \in 1..(Len(x) - 1) :
        /\ x[i] # Tok("ParClose")
        /\ (i = 1 \/ i = Len(x) - 1) => x[i].type = "Number"
        /\ i > 1 => ((x[i].type = "Number") # (x[i - 1].type = "Number"))
\* x is { + number }, what may follow the call in the cell's expression
IsTail(x) ==
    \A i \in 1..Len(x) : x[i].type = (IF i % 2 = 1 THEN "Add" ELSE "Number")
WellFormedTail(x) == Len(x) % 2 = 0 /\ IsTail(x)
\* the k for which the first k tokens of x are the argument list and its `)`
\* and the others what follows the call
CallSplits(x) ==
    {k \in 1..Len(x) :
        WellFormedArgs(SubSeq(x, 1, k)) /\ WellFormedTail(SubSeq(x, k + 1, Len(x)))}

C12_CallSyntax ==
    parsed.st # "none" =>
        \A x \in ArgLists :
            scanned.v = CallTokens(x) =>
                /\ parsed.st = "ok" <=> CallSplits(x) # {}
                /\ x = <<Tok("ParClose")>> => ParsedTo(Call("int", <<>>))

(***************************************************************************)
(* C13.  scan gives a token to each of the operator characters + - * / %:  *)
(* `cell a: 1 c 2 d 3;` scans to the tokens of the two operators between   *)
(* the numbers, and `cell a: 5 % 2;` scans and parses to Mod(5, 2).        *)
(***************************************************************************)
OperatorToken(c) ==
    CASE c = "+" -> Tok("Add") [] c = "-" -> Tok("Sub") [] c = "*" -> Tok("Mul")
      [] c = "/" -> Tok("Div") [] c = "%" -> Tok("Mod")

C13_FiveOperators ==
    /\ scanned.st # "none" =>
        \A c \in OpChars \X OpChars :
            source = SourceOf(<<"1", " ", c[1], " ", "2", " ", c[2], " ", "3">>)
                => scanned = Ok(CellTokens(<<NumberTok("1"), OperatorToken(c[1]), NumberTok("2"),
                                             OperatorToken(c[2]), NumberTok("3")>>))
    /\ (pc = "exited" /\ source = SourceOf(<<"5", " ", "%", " ", "2">>))
            => ParsedTo(Bin("Mod", N(5), N(2)))

(***************************************************************************)
(* C14.  The process that was given a code file exits with a status other  *)
(* than 0 when cli::run returned an error, and with 0 only when it         *)
(* returned Ok.                                                            *)
(***************************************************************************)
C14_ExitStatus ==
    (pc = "exited" /\ source # <<>>) => (exit # 0 <=> RunReturnedErr)

(***************************************************************************)
(* C15.  On the accumulator IR a cell `if l OP r ? T : F` gets the value   *)
(* of T when `l OP r` holds and the value of F otherwise, and the          *)
(* instruction executed after a JMPCompare whose comparison holds is the   *)
(* one at index addr.                                                      *)
(***************************************************************************)
\* the program is `param p; cell a: if l OP r ? T : F;` with p bound, l and
\* r a number or p, T and F numbers
SimpleCondition ==
    /\ Len(program) = 2 /\ program[2].kind = "Cell" /\ program[2].name = "a"
    /\ program[2].expr.kind = "Condition"
    /\ program[2].expr.lhs \in ArithOperands /\ program[2].expr.rhs \in ArithOperands
    /\ program[2].expr.true_branch.kind = "Number"
    /\ program[2].expr.false_branch.kind = "Number"
    /\ AllParamsBound
OperandValue(x) == IF x.kind = "Number" THEN x.v ELSE bindings[x.name]
ConditionHolds(e) == Compare(e.op, OperandValue(e.lhs), OperandValue(e.rhs))

C15_ConditionalValue ==
    [][/\ (/\ AccAt("JMPCompare") /\ acc'.status = "running"
           /\ Compare(cg.v[acc.ip + 1].cmp, acc.regs.a,
                      AccRead(cg.v[acc.ip + 1].arg, acc.regs).v))
            => acc'.ip = cg.v[acc.ip + 1].addr
       /\ (SimpleCondition /\ engine = "ir" /\ pc' = "done" /\ acc'.status = "ok")
            => ValueIn(accResult', "a",
                       IF ConditionHolds(program[2].expr)
                         THEN program[2].expr.true_branch.v
                       ELSE program[2].expr.false_branch.v)]_vars

(***************************************************************************)
(* C16.  Each of the comparison instructions Equal, Greater, GreaterEqual, *)
(* Less and LessEqual of vm::run takes the value pushed last as lhs and    *)
(* the one pushed before it as rhs, and replaces the two by 1.0 when       *)
(* `lhs OP rhs` holds and by 0.0 when it does not.                         *)
(***************************************************************************)
\* the operator a comparison instruction of the stack IR stands for
OperatorOfInst(op) == IF op = "Equal" THEN "Equals" ELSE op
\* the value pushed last and the one pushed before it
Top(stack) == stack.data[stack.st]
Below(stack) == stack.data[stack.st - 1]
\* the VM runs instruction op on two operands and leaves v in their place
VmReplacesBy(v) ==
    /\ vm'.status = "running"
    /\ vm'.stack.st = vm.stack.st - 1
    /\ Top(vm'.stack) = v

C16_ComparisonOperands ==
    [][\A op \in {"Equal", "Greater", "GreaterEqual", "Less", "LessEqual"} :
        (VmAt(op) /\ vm.stack.st >= 2)
            => VmReplacesBy(Bool(Compare(OperatorOfInst(op), Top(vm.stack), Below(vm.stack))))]_vars

(***************************************************************************)
(* C17.  Sub, Div and Mod of vm::run compute `l OP r` with l the value     *)
(* pushed last and r the one pushed before it, so a cell `x - y`, lowered  *)
(* y first, evaluates to x minus y (`1 - 2` is -1 and `2 - 1` is 1), and   *)
(* likewise for / and %.                                                   *)
(***************************************************************************)
\* the program is `param p; cell a: x OP y;` with p bound, x and y a number
\* or p, and OP one of - / %
SimpleBinary ==
    /\ Len(program) = 2 /\ program[2].kind = "Cell" /\ program[2].name = "a"
    /\ program[2].expr.kind \in {"Sub", "Div", "Mod"}
    /\ program[2].expr.l \in ArithOperands /\ program[2].expr.r \in ArithOperands
    /\ AllParamsBound

C17_NonCommutativeOperands ==
    [][/\ \A op \in {"Sub", "Div", "Mod"} :
            (VmAt(op) /\ vm.stack.st >= 2)
                => VmReplacesBy(Arith(op, Top(vm.stack), Below(vm.stack)))
       /\ (SimpleBinary /\ engine = "vm" /\ pc' = "done")
            => /\ vm'.status = "ok"
               /\ ValueIn(vmResult', "a",
                          Arith(program[2].expr.kind, OperandValue(program[2].expr.l),
                                OperandValue(program[2].expr.r)))]_vars

\* vm::run has returned -1 for `cell a: 1 - 2;`
C17_Witness ==
    /\ SimpleBinary /\ engine = "vm" /\ pc = "done" /\ vm.status = "ok"
    /\ program[2].expr = Bin("Sub", N(1), N(2))
    /\ ValueIn(vmResult, "a", Num(-1))

(***************************************************************************)
(* C18.  In vm::run on the lowered IR of a program, when the instructions  *)
(* of the k-th node in dependency order have finished, the stack pointer   *)
(* is k and the node's value, the value pushed last, is at the node's      *)
(* metadata slot; and no instruction changes the value at the slot of a    *)
(* node that has finished before.                                          *)
(***************************************************************************)
\* the index after the last instruction of the k-th node of the order, and
\* the metadata when that node has been lowered
LoweredTo(k) == LowerNodes(program, SubSeq(exec_order.v, 1, k), 1, EmptyIR).v
NodeEnd(k) == Len(LoweredTo(k).instructions)
\* the nodes whose instructions all lie before index ip
Finished(ip) == {k \in 1..Len(exec_order.v) : NodeEnd(k) <= ip}
\* vm::run works on the lowered IR of a program
VmOnLowered == engine = "vm" /\ pc = "run" /\ program # <<>> /\ exec_order.st = "ok"

C18_OneSlotPerNode ==
    [][(VmOnLowered /\ vm'.status = "running") =>
        /\ \A k \in 1..Len(exec_order.v) :
            vm'.ip = NodeEnd(k) =>
                /\ vm'.stack.st = k
                /\ SlotOf(LoweredTo(k).meta, exec_order.v[k]) = vm'.stack.st - 1
        /\ \A k \in Finished(vm.ip) : vm'.stack.data[k] = vm.stack.data[k]]_vars

(***************************************************************************)
(* C19.  For every conditional that code_gen_expr lowers there is exactly  *)
(* one JMPCompare and one JMP; the target of the JMPCompare is the index   *)
(* just after that JMP, the target of the JMP is the index of the Nop that *)
(* ends the conditional, both lie inside the instruction list, and the     *)
(* only Nops left are those closing Nops, also for conditionals nested in  *)
(* a branch.                                                               *)
(***************************************************************************)
\* the conditionals in an expression
RECURSIVE CondCount(_)
RECURSIVE CondCountOfArgs(_)
CondCount(expr) ==
    CASE expr.kind \in BinKinds -> CondCount(expr.l) + CondCount(expr.r)
      [] expr.kind = "Condition" ->
            1 + CondCount(expr.lhs) + CondCount(expr.rhs)
              + CondCount(expr.true_branch) + CondCount(expr.false_branch)
      [] expr.kind = "Call" -> CondCountOfArgs(expr.arguments)
      [] OTHER -> 0
CondCountOfArgs(arguments) ==
    IF arguments = <<>> THEN 0
    ELSE CondCount(Head(arguments)) + CondCountOfArgs(Tail(arguments))
\* the conditionals code_gen lowers: those of every node of the order
RECURSIVE CondsLowered(_)
CondsLowered(order) ==
    IF order = <<>> THEN 0
    ELSE LET node == FindNode(program, Head(order))
         IN  (IF node.kind = "Cell" THEN CondCount(node.expr) ELSE 0)
             + CondsLowered(Tail(order))
\* the indices (from 0) of the instructions of one kind
IndicesOf(code, op) == {i \in 0..(Len(code) - 1) : code[i + 1].op = op}

C19_JumpTargets ==
    cg.st = "ok" =>
        LET code == cg.v
            n == CondsLowered(exec_order.v)
        IN  /\ Cardinality(IndicesOf(code, "JMPCompare")) = n
            /\ Cardinality(IndicesOf(code, "JMP")) = n
            /\ Cardinality(IndicesOf(code, "Nop")) = n
            /\ \A i \in IndicesOf(code, "JMPCompare") :
                LET jmp == code[i + 1].addr - 1
                IN  /\ jmp \in IndicesOf(code, "JMP") /\ jmp > i
                    /\ code[jmp + 1].addr \in IndicesOf(code, "Nop")
                    /\ code[jmp + 1].addr > jmp
                    /\ code[i + 1].addr < Len(code)
            /\ \A j \in IndicesOf(code, "JMP") :
                \E i \in IndicesOf(code, "JMPCompare") : code[i + 1].addr = j + 1
            /\ \A i, j \in IndicesOf(code, "JMP") :
                code[i + 1].addr = code[j + 1].addr => i = j

\* code_gen has lowered a conditional with a conditional in each branch
C19_Witness ==
    /\ cg.st = "ok" /\ Cardinality(IndicesOf(cg.v, "JMPCompare")) = 3
    /\ \E i \in 1..Len(program) :
        /\ program[i].kind = "Cell" /\ program[i].expr.kind = "Condition"
        /\ CondCount(program[i].expr.true_branch) = 1
        /\ CondCount(program[i].expr.false_branch) = 1

(***************************************************************************)
(* C20.  In the accumulator IR, when a Call executes, argument i of the    *)
(* call is in Var(arg_start + i); so `int(e)` run by ir_interpreter::run   *)
(* returns the rounded value of e, also for a compound e that uses         *)
(* temporaries of its own.                                                 *)
(***************************************************************************)
\* the program is `param p; cell a: f(...);` with p bound
SimpleCall ==
    /\ Len(program) = 2 /\ program[2].kind = "Cell" /\ program[2].name = "a"
    /\ program[2].expr.kind = "Call"
    /\ AllParamsBound
\* the call is `int(x OP y)` with x and y a number or p
IntOfBinary ==
    /\ SimpleCall /\ program[2].expr.name = "int" /\ Len(program[2].expr.arguments) = 1
    /\ program[2].expr.arguments[1].kind \in BinKinds
    /\ program[2].expr.arguments[1].l \in ArithOperands
    /\ program[2].expr.arguments[1].r \in ArithOperands

C20_CallArguments ==
    [][/\ (AccAt("Call") /\ SimpleCall)
            => \A i \in 1..Len(program[2].expr.arguments) :
                program[2].expr.arguments[i] \in ArithOperands
                    => AccRead(Var(cg.v[acc.ip + 1].arg_start + i - 1), acc.regs)
                        = Ok(OperandValue(program[2].expr.arguments[i]))
       /\ (IntOfBinary /\ engine = "ir" /\ pc' = "done")
            => /\ acc'.status = "ok"
               /\ ValueIn(accResult', "a",
                          FRound(Arith(program[2].expr.arguments[1].kind,
                                       OperandValue(program[2].expr.arguments[1].l),
                                       OperandValue(program[2].expr.arguments[1].r))))]_vars

(***************************************************************************)
(* C21.  code_gen returns an error for a program that calls rand with one  *)
(* or more arguments or int with a number of arguments other than one,     *)
(* and no engine returns a value for such a program.                       *)
(***************************************************************************)
\* expr holds a call of rand or of int with an arity the function has not
RECURSIVE BadArity(_)
BadArity(expr) ==
    \/ /\ expr.kind = "Call"
       /\ \/ expr.name = "rand" /\ Len(expr.arguments) # 0
          \/ expr.name = "int" /\ Len(expr.arguments) # 1
          \/ \E i \in 1..Len(expr.arguments) : BadArity(expr.arguments[i])
    \/ expr.kind \in BinKinds /\ (BadArity(expr.l) \/ BadArity(expr.r))
    \/ /\ expr.kind = "Condition"
       /\ \/ BadArity(expr.lhs) \/ BadArity(expr.rhs)
          \/ BadArity(expr.true_branch) \/ BadArity(expr.false_branch)
BadArityProgram ==
    \E i \in 1..Len(program) : program[i].kind = "Cell" /\ BadArity(program[i].expr)

C21_ArityValidated ==
    [][(BadArityProgram /\ pc \in {"start", "ast", "run"})
            => /\ (pc = "start" /\ engine # "ast") => cg'.st = "err"
               /\ astResult'.st # "ok"
               /\ vm'.status # "ok"
               /\ acc'.status # "ok"]_vars

(***************************************************************************)
(* C22.  ast_interpreter::run on an acyclic program whose names are all    *)
(* declared and whose params are all bound reports no cyclic dependency,   *)
(* and the value it returns for each queried name is the one it returns    *)
(* when that name is queried alone.                                        *)
(***************************************************************************)
\* expr holds a call of the function
RECURSIVE Calls(_, _)
Calls(expr, name) ==
    \/ /\ expr.kind = "Call"
       /\ \/ expr.name = name
          \/ \E i \in 1..Len(expr.arguments) : Calls(expr.arguments[i], name)
    \/ expr.kind \in BinKinds /\ (Calls(expr.l, name) \/ Calls(expr.r, name))
    \/ /\ expr.kind = "Condition"
       /\ \/ Calls(expr.lhs, name) \/ Calls(expr.rhs, name)
          \/ Calls(expr.true_branch, name) \/ Calls(expr.false_branch, name)

\* the program is acyclic, refers to declared names only and draws no
\* random number, and the names queried are declared
SoundQuery ==
    /\ pc = "done" /\ engine = "ast" /\ program # <<>>
    /\ ~HasCycle(DepMap(program)) /\ ~ReferencesUndeclared(DepMap(program))
    /\ AllParamsBound /\ ~BadArityProgram
    /\ Range(query) \subseteq DeclaredNames(program)
    /\ \A i \in 1..Len(program) : program[i].kind = "Cell" => ~Calls(program[i].expr, "rand")
\* what run returns for the name queried alone
Alone(name) == AstRunOf(program, <<name>>, bindings)

C22_QueryOrderIrrelevant ==
    (SoundQuery /\ \A i \in 1..Len(query) : Alone(query[i]).st = "ok")
    => /\ astResult.msg # "cyclic dependency found"
       /\ astResult.st = "ok"
       /\ \A i \in 1..Len(query) : astResult.results[i] = Alone(query[i]).results[1]

(***************************************************************************)
(* C23.  The order get_order_of_execution returns holds every declared     *)
(* name exactly once, and the code code_gen returns stores the result of   *)
(* each param and cell exactly once.                                       *)
(***************************************************************************)
\* the instructions of code that store into CellResult(name): the LoadParam
\* of a param and the closing Mov of a cell
StoresOf(code, name) ==
    {i \in 1..Len(code) :
        /\ code[i].op \in {"Mov", "LoadParam"}
        /\ code[i].to.slot = "CellResult" /\ code[i].to.arg = name}
Occurrences(s, x) == Cardinality({i \in 1..Len(s) : s[i] = x})

C23_EachNameOnce ==
    /\ exec_order.st = "ok"
        => \A n \in DeclaredNames(program) : Occurrences(exec_order.v, n) = 1
    /\ (cg.st = "ok" /\ pc # "start" /\ program # <<>>)
        => \A n \in DeclaredNames(program) : Cardinality(StoresOf(cg.v, n)) = 1

(***************************************************************************)
(* C24.  Within one ast_interpreter::run every cell is evaluated at most   *)
(* once: the run draws at most one random number for each call of rand in  *)
(* the program, and in `cell c: rand(); cell a: c - c;` both references to *)
(* c have the same value, so a is 0.                                       *)
(***************************************************************************)
\* the number of calls of rand in expr
RECURSIVE RandCalls(_)
RECURSIVE RandCallsOfArgs(_)
RandCalls(expr) ==
    CASE expr.kind = "Call" ->
            (IF expr.name = "rand" THEN 1 ELSE 0) + RandCallsOfArgs(expr.arguments)
      [] expr.kind \in BinKinds -> RandCalls(expr.l) + RandCalls(expr.r)
      [] expr.kind = "Condition" ->
            RandCalls(expr.lhs) + RandCalls(expr.rhs)
            + RandCalls(expr.true_branch) + RandCalls(expr.false_branch)
      [] OTHER -> 0
RandCallsOfArgs(arguments) ==
    IF arguments = <<>> THEN 0
    ELSE RandCalls(Head(arguments)) + RandCallsOfArgs(Tail(arguments))
RECURSIVE RandCallsOfNodes(_)
RandCallsOfNodes(nodes) ==
    IF nodes = <<>> THEN 0
    ELSE (IF Head(nodes).kind = "Cell" THEN RandCalls(Head(nodes).expr) ELSE 0)
         + RandCallsOfNodes(Tail(nodes))
AstReturned == pc = "done" /\ engine = "ast" /\ astResult.st = "ok"

C24_CellEvaluatedOnce ==
    /\ AstReturned => astResult.ri <= RandCallsOfNodes(program)
    /\ (AstReturned /\ program \in TwicePrograms /\ program[2].expr.kind = "Sub")
            => ValueIn(astResult.results, "a", Num(0))

(***************************************************************************)
(* C25.  In the code that code_gen returns, and in the lowered stack IR,   *)
(* every jump instruction has a target greater than its own index; and     *)
(* every step of ir_interpreter::run and of vm::run on such code moves the *)
(* instruction pointer forward, to an index not beyond the end of the      *)
(* code, so a run takes at most as many steps as there are instructions.   *)
(***************************************************************************)
\* every jump of the accumulator code, and of the stack code, is forward
ForwardJumps(code) ==
    \A i \in 1..Len(code) : code[i].op \in {"JMP", "JMPCompare"} => code[i].addr > i - 1
ForwardStackJumps(instructions) ==
    \A i \in 1..Len(instructions) :
        instructions[i].op \in {"JMP", "JMPIfFalse"} => instructions[i].arg > i - 1
\* the stack IR came out of the lowering
Lowered == program # <<>> /\ sir # EmptyIR

C25_ForwardOnly ==
    [][/\ (pc = "start" /\ cg'.st = "ok") => ForwardJumps(cg'.v)
       /\ (pc = "start" /\ Lowered') => ForwardStackJumps(sir'.instructions)
       /\ (pc = "run" /\ engine = "ir" /\ acc.ip < Len(cg.v) /\ acc'.status = "running")
            => acc'.ip > acc.ip /\ acc'.ip <= Len(cg.v)
       /\ (pc = "run" /\ engine = "vm" /\ Lowered /\ vm.ip < Len(sir.instructions)
           /\ vm'.status = "running")
            => vm'.ip > vm.ip /\ vm'.ip <= Len(sir.instructions)]_vars

\* both interpreters have taken a jump of a conditional inside a conditional
C25_Witness ==
    /\ \E i \in 1..Len(program) : program[i].kind = "Cell" /\ CondCount(program[i].expr) >= 3
    /\ pc = "run"
    /\ \/ /\ engine = "ir" /\ acc.status = "running"
          /\ \E i \in 1..Len(cg.v) :
                cg.v[i].op = "JMP" /\ acc.ip = cg.v[i].addr + 1 /\ cg.v[i].addr > i
       \/ /\ engine = "vm" /\ vm.status = "running"
          /\ \E i \in 1..Len(sir.instructions) :
                sir.instructions[i].op = "JMP" /\ vm.ip = sir.instructions[i].arg

(***************************************************************************)
(* C26.  When the function jit_compile built runs the code of a            *)
(* JMPIfFalse(t), control goes where vm::run goes when it pops the same    *)
(* value at that instruction: to t when the value is 0.0, to the next      *)
(* instruction otherwise.                                                  *)
(***************************************************************************)
\* the function is at the code of an instruction op of the IR
NativeAt(op) ==
    /\ pc = "run" /\ engine = "jit" /\ jit.status = "built" /\ native.status = "running"
    /\ native.ip < Len(jit.ops)
    /\ sir.instructions[native.ip + 1].op = op
\* where vm::run goes from the instruction at ip with v on top of its stack
VmGoesTo(ip, v) ==
    VmExec(sir.instructions[ip + 1], ip, StackPush(StackDefault, v).stack, bindings, 0).ip

C26_SameBranchAsVm ==
    [][NativeAt("JMPIfFalse")
        => LET v == native.env[jit.ops[native.ip + 1].a + 1]
           IN  /\ native'.ip = VmGoesTo(native.ip, v)
               /\ native'.ip = sir.instructions[native.ip + 1].arg <=> v = Num(0)]_vars

(***************************************************************************)
(* C27.  The function jit_compile built loads, for LoadParam(name), the    *)
(* input at the position of name in param_order; and when it returns, the  *)
(* out array holds one value per entry of the metadata, at the entry's     *)
(* slot, which is the value of that param or cell.                         *)
(***************************************************************************)
\* the function returned, and the program is one of arithmetic only
NativeReturned ==
    /\ pc = "done" /\ engine = "jit" /\ native.status = "ok"
    /\ ~ProgramMentions({"Condition", "Call"})
    /\ Len(sir.meta) <= JitOutLen

C27_ParamsAndOutputs ==
    [][/\ NativeAt("LoadParam")
            => native'.env[jit.ops[native.ip + 1].out + 1]
                = JitIn[JitPosition(ParamOrder(program), sir.instructions[native.ip + 1].arg) + 1]
       /\ NativeReturned'
            => /\ jit'.stack_vars = Len(sir.meta)
               /\ \A k \in 1..Len(sir.meta) :
                    native'.out[sir.meta[k][2] + 1] = Alone(sir.meta[k][1]).results[1][2]]_vars

(***************************************************************************)
(* C28.  Whenever vm::run is at an instruction of a lowered IR without     *)
(* calls, the abstract stack jit_compile has when it translates that       *)
(* instruction is as deep as the VM's operand stack.                       *)
(***************************************************************************)
\* vm::run is at an instruction of an IR that was lowered from a program
\* without calls
VmOnJitCode ==
    /\ pc = "run" /\ engine = "vm" /\ vm.status = "running"
    /\ vm.ip < Len(sir.instructions)
    /\ Lowered /\ ~ProgramMentions({"Call"})
\* jit_compile's translation when its loop reaches the instruction at ip
JitAt(ip) == JitUpTo(sir.instructions, ip, ParamOrder(program))

C28_AbstractStackDepth ==
    VmOnJitCode
        => /\ JitAt(vm.ip).status = "running"
           /\ Len(JitAt(vm.ip).current_stack) = vm.stack.st

(***************************************************************************)
(* C29.  Every Number token that scan returns has at most one `.` in its   *)
(* text, and its text parses as an f64 (as parse_atom will parse it).      *)
(***************************************************************************)
\* the Number tokens of the list scan returned for the code file
ScannedNumbers ==
    IF source # <<>> /\ scanned.st = "ok"
        THEN {scanned.v[i].text : i \in {k \in 1..Len(scanned.v) : scanned.v[k].type = "Number"}}
    ELSE {}
DotsIn(text) == Cardinality({k \in 1..Len(text) : text[k] = "."})

C29_NumberTokensParse ==
    \A text \in ScannedNumbers : DotsIn(text) <= 1 /\ ParseF64(text).st = "ok"


(***************************************************************************)
(* C30.  scan never slices its input outside a character boundary, and the *)
(* text of every Ident and Number token it returns is the lexeme that was  *)
(* read: an Ident's text starts with an ASCII letter and is alphanumeric,  *)
(* a Number's text starts with `-` or a numeric character and goes on with *)
(* numeric characters and `.`; this also when characters of more than one  *)
(* byte stand earlier in the input.                                        *)
(***************************************************************************)
IsLexeme(token) ==
    CASE token.type = "Ident" ->
             /\ token.text # <<>>
             /\ IsAsciiAlphabetic(Head(token.text))
             /\ \A k \in 1..Len(token.text) : IsAlphanumeric(token.text[k])
      [] token.type = "Number" ->
             /\ token.text # <<>>
             /\ Head(token.text) = "-" \/ IsNumeric(Head(token.text))
             /\ \A k \in 2..Len(token.text) :
                    token.text[k] = "." \/ IsNumeric(token.text[k])
      [] OTHER -> TRUE
C30_TokensAreLexemes ==
    source # <<>> =>
        /\ scanned.st # "panic"
        /\ scanned.st = "ok" => \A i \in 1..Len(scanned.v) : IsLexeme(scanned.v[i])
====
